---- MODULE Spec2Model ----
(***************************************************************************)
(* A model of the capellix daemon (crates/capellix): the control-plane     *)
(* codec (SocketCommandCodec, socket_command_bytes, SocketResponse), and   *)
(* the orchestrator with its watcher, server and session tasks.            *)
(*                                                                         *)
(* Several specifications share the module:                                *)
(*   SpecCodec      a byte stream cut into chunks and fed to the decoder   *)
(*   SpecRoundTrip  encode / decode of commands and responses              *)
(*   Spec           the daemon: orchestrator, watchers, server, sessions   *)
(*   SpecShutdown   the daemon without a server, its channel filled        *)
(*   SpecFlood      the daemon with a full fan-target channel              *)
(*   SpecDevice     the daemon with the device commands it writes logged   *)
(*   SpecSpeeds     the daemon with two fan targets set in turn            *)
(*   SpecWatch      the daemon with a fan-target file written once         *)
(*   SpecClose      SpecSpeeds with fair session tasks                     *)
(*   SpecColors     the daemon with colour buffers published by a client   *)
(*   SpecDrop       SpecSpeeds with run_async failing in its loop          *)
(*   SpecRequest    one Hid::request over a sequence of commands           *)
(*   SpecStartup    SpecSpeeds with a first target equal to the default    *)
(*   SpecText       SocketCommand::from_str on strings                     *)
(*   SpecReply      the server's reply decoded by capellixctl              *)
(*   SpecTemp       the number written to the coolant-temperature file     *)
(*   SpecFan        Fan::try_from and u8::from on every u8                 *)
(*   SpecAtomic     AtomicChanged, one call at a time                      *)
(*   SpecAtomicRace AtomicChanged, change and if_changed interleaved       *)
(***************************************************************************)
EXTENDS Integers, Sequences, FiniteSets, TLC

VARIABLES
    \* ---- SpecCodec: one FramedRead<_, SocketCommandCodec>
    stream,       \* the bytes the peer sends, in order
    pos,          \* how many of them have been read from the socket
    cbuf,         \* SocketCommandCodec.buf, the accumulation buffer
    out,          \* the commands emitted so far, in order
    is_readable,  \* FramedRead: the decoder is to be called again
    eof,          \* FramedRead: a read returned 0 bytes
    cstatus,      \* "open", "ended" (stream returned None), "error"
    \* ---- SpecRoundTrip: a value, its encoding, and the encoding decoded
    rt_in,        \* [kind |-> "command" or "response", val |-> the value]
    rt_bytes,     \* Vec<u8>::from(value)
    rt_out,       \* the parser's result on rt_bytes
    rt_pc,        \* "value", "bytes", "done"
    \* ---- SpecRequest: one call of Hid::request
    req_cmds,     \* the commands of the request, in order
    req_i,        \* how many of them Hid::command has been called with
    req_st,       \* "running", "ok", "err": the call's result
    req_err,      \* the position of the command that failed, 0 if none
    \* ---- SpecAtomic: one AtomicChanged<T> shared by two threads
    ac,           \* [value |-> the version of T, changed |-> the AtomicBool]
    ac_c,         \* the thread calling if_changed
    ac_p,         \* the thread calling change
    \* ---- Spec: the daemon
    \* the command line and the environment
    listen,                \* Capellix.listen
    unrecognized_firmware, \* Capellix.unrecognized_firmware
    file_values,           \* what the environment writes to fan-target files
    client_chunks,         \* what clients write to a connection or send as a datagram
    temp_values,           \* the coolant temperatures the device may report
    speed_values,          \* the pump speeds the device may report
    probe_cap,             \* how many device commands the log in hid can hold
    writes_left,           \* file writes the environment may still make
    inputs_left,           \* chunks, datagrams and closes clients may still send
    conns_left,            \* connections clients may still open
    signal,                \* an interrupt, hangup or terminate signal is pending
    \* Capellix::run_async
    pc,                    \* where run_async is
    result,                \* "running", "ok", "err", "panic"
    join_i,                \* the index of the next fan_join_handles entry
    firmware,              \* <<major, minor, patch>> as read from the device, or <<>>
    hid,                   \* what has been written to the device
    \* SharedState and the orchestrator's colour copy
    coolant_temp,
    pump_speed,
    fan_targets,           \* [0..6 -> u16]
    colors,                \* Capellix.colors
    \* channels
    chan,                  \* the mpsc channel of (Fan, u16), capacity 14
    colors_rx,             \* the watch channel of Colors: value, unseen flag
    exit_running,          \* the watch channel of bool (exit_tx / exit_rx)
    \* FanTargetThread, one per fan-target file
    wst,                   \* "init", "sending", "wait", "done", "failed"
    wfile,                 \* the file's content
    wnotify,               \* an inotify MODIFY event is pending
    wmsg,                  \* the message of a suspended send
    \* ServerThread
    sst,                   \* "none", "init", "listening", "sending", "joining", "done", "failed"
    sockets,               \* ServerThread.sockets: the sessions spawned, in order
    ubuf,                  \* the UDP codec's accumulation buffer
    u_readable,            \* UdpFramed: decode_eof is to be called again
    umsg,                  \* the message of the server's suspended send
    \* SocketThread, one per accepted connection
    sess,                  \* "none", "run", "sending", "done", "failed"
    sconn,                 \* the peer has the connection open
    sbuf,                  \* the session codec's accumulation buffer
    s_readable,            \* FramedRead: decode is to be called again
    smsg,                  \* the message of a suspended send
    replies                \* the byte strings written to the sink, in order

codecVars == <<stream, pos, cbuf, out, is_readable, eof, cstatus>>
rtVars == <<rt_in, rt_bytes, rt_out, rt_pc>>
reqVars == <<req_cmds, req_i, req_st, req_err>>
acVars == <<ac, ac_c, ac_p>>
envVars == <<listen, unrecognized_firmware, file_values, client_chunks,
            temp_values, speed_values, probe_cap>>
orchVars == <<pc, result, join_i, firmware, hid>>
stateVars == <<coolant_temp, pump_speed, fan_targets, colors>>
watcherVars == <<wst, wfile, wnotify, wmsg>>
serverVars == <<sst, sockets, ubuf, u_readable, umsg>>
sessVars == <<sess, sconn, sbuf, s_readable, smsg, replies>>
budgetVars == <<writes_left, inputs_left, conns_left>>
taskVars == <<chan, colors_rx, exit_running, watcherVars, serverVars, sessVars>>
daemonVars ==
    <<envVars, writes_left, inputs_left, conns_left, signal, orchVars, stateVars,
      chan, colors_rx, exit_running, watcherVars, serverVars, sessVars>>

vars == <<codecVars, rtVars, reqVars, acVars, acVars, daemonVars>>

----------------------------------------------------------------------------
\* Bounds of the model

\* the largest number of items a small byte stream is made of
MaxItems == 4
\* chunk boundaries are taken at every offset within MaxFine bytes of either
\* end of a stream (that is every offset, for the small streams)
MaxFine == 8
\* 16-bit values are drawn from 0..MaxU16Run and 65535-MaxU16Run..65535
MaxU16Run == 300
\* the number of fan-target files given on the command line
NumWatchers == 1
\* the number of TCP connections clients may open
MaxSessions == 2
\* the number of chunks and datagrams clients may send in all
MaxInputs == 2
\* the number of writes to fan-target files the environment may make
MaxWrites == 1
\* the number of device commands the log keeps in SpecDevice
MaxIssued == 6

----------------------------------------------------------------------------
\* Program constants

LED_COUNT_PUMP == 29
LED_COUNT_FAN == 34
LED_COUNT_TOTAL == LED_COUNT_PUMP + LED_COUNT_FAN * 6

SOCKET_COMMAND_GET_COOLANT_TEMP == 0
SOCKET_COMMAND_GET_PUMP_SPEED == 1
SOCKET_COMMAND_SET_PUMP_SPEED == 2
SOCKET_COMMAND_SET_COLORS == 3

\* sync::mpsc::channel::<(Fan, u16)>(14)
FanChannelCapacity == 14

\* [b'C', b'P', b'L', b'X']
Marker == <<67, 80, 76, 88>>

----------------------------------------------------------------------------
\* Helpers on sequences

SetMin(S) == CHOOSE x \in S : \A y \in S : x <= y

\* s[from+1 ..], a Rust slice &s[from..]
Drop(s, from) == SubSeq(s, from + 1, Len(s))

\* u16::to_le_bytes
to_le_bytes(v) == <<v % 256, v \div 256>>

\* u16::from_le_bytes / nom le_u16
from_le_bytes(lo, hi) == lo + 256 * hi

----------------------------------------------------------------------------
\* Fan (pump_target.rs)

Pump == [kind |-> "Pump", idx |-> 0]
FanN(i) == [kind |-> "Fan", idx |-> i]

\* a plausible slip: the index of the fan without the offset of the pump
FanToU8_Index(fan) == IF fan.kind = "Pump" THEN 0 ELSE fan.idx

\* impl From<Fan> for u8
FanToU8(fan) == IF fan.kind = "Pump" THEN 0 ELSE (fan.idx + 1) % 256

\* a plausible slip: Fan(i - 1) decoded as Fan(i)
FanTryFromU8_OffByOne(b) ==
    IF b = 0 THEN [ok |-> TRUE, fan |-> Pump]
    ELSE IF b <= 7 THEN [ok |-> TRUE, fan |-> FanN(b)]
    ELSE [ok |-> FALSE, fan |-> Pump]

\* impl TryFrom<u8> for Fan
FanTryFromU8(b) ==
    IF b = 0 THEN [ok |-> TRUE, fan |-> Pump]
    ELSE IF b <= 7 THEN [ok |-> TRUE, fan |-> FanN(b - 1)]
    ELSE [ok |-> FALSE, fan |-> Pump]

----------------------------------------------------------------------------
\* SocketCommand (socket_command.rs)

NoColors == <<>>

GetCoolantTemp == [type |-> "GetCoolantTemp", fan |-> Pump, speed |-> 0, colors |-> NoColors]
GetPumpSpeed == [type |-> "GetPumpSpeed", fan |-> Pump, speed |-> 0, colors |-> NoColors]
SetFanTarget(fan, speed) == [type |-> "SetFanTarget", fan |-> fan, speed |-> speed, colors |-> NoColors]
SetColors(cs) == [type |-> "SetColors", fan |-> Pump, speed |-> 0, colors |-> cs]

\* colors.into_iter().flatten(): the RGB triples laid end to end
Flatten(cs) ==
    [i \in 1..(3 * Len(cs)) |-> cs[((i - 1) \div 3) + 1][((i - 1) % 3) + 1]]

\* impl From<SocketCommand> for Vec<u8>
CommandToBytes(c) ==
    CASE c.type = "GetCoolantTemp" -> <<SOCKET_COMMAND_GET_COOLANT_TEMP>>
      [] c.type = "GetPumpSpeed" -> <<SOCKET_COMMAND_GET_PUMP_SPEED>>
      [] c.type = "SetFanTarget" ->
            <<SOCKET_COMMAND_SET_PUMP_SPEED>> \o <<FanToU8(c.fan)>> \o to_le_bytes(c.speed)
      [] c.type = "SetColors" -> <<SOCKET_COMMAND_SET_COLORS>> \o Flatten(c.colors)

\* a nom error: nothing parsed
ParseErr == [ok |-> FALSE, rest |-> <<>>, cmd |-> GetCoolantTemp]
ParseOk(rest, cmd) == [ok |-> TRUE, rest |-> rest, cmd |-> cmd]

socket_command_get_coolant_temp_bytes(input) ==
    IF Len(input) >= 1 /\ input[1] = SOCKET_COMMAND_GET_COOLANT_TEMP
    THEN ParseOk(Drop(input, 1), GetCoolantTemp)
    ELSE ParseErr

socket_command_get_pump_speed_bytes(input) ==
    IF Len(input) >= 1 /\ input[1] = SOCKET_COMMAND_GET_PUMP_SPEED
    THEN ParseOk(Drop(input, 1), GetPumpSpeed)
    ELSE ParseErr

socket_command_set_fan_speed_bytes(input) ==
    IF Len(input) >= 1 /\ input[1] = SOCKET_COMMAND_SET_PUMP_SPEED
    THEN IF Len(input) >= 2 /\ FanTryFromU8(input[2]).ok
         THEN IF Len(input) >= 4
              THEN ParseOk(Drop(input, 4),
                           SetFanTarget(FanTryFromU8(input[2]).fan,
                                        from_le_bytes(input[3], input[4])))
              ELSE ParseErr
         ELSE ParseErr
    ELSE ParseErr

socket_command_set_colors_bytes(input) ==
    IF Len(input) >= 1 /\ input[1] = SOCKET_COMMAND_SET_COLORS
    THEN IF Len(input) >= 1 + 3 * LED_COUNT_TOTAL
         THEN ParseOk(Drop(input, 1 + 3 * LED_COUNT_TOTAL),
                      SetColors([i \in 1..LED_COUNT_TOTAL |->
                          <<input[3 * i - 1], input[3 * i], input[3 * i + 1]>>]))
         ELSE ParseErr
    ELSE ParseErr

\* nom::branch::alt: the first parser that succeeds
socket_command_bytes(input) ==
    IF socket_command_set_colors_bytes(input).ok
    THEN socket_command_set_colors_bytes(input)
    ELSE IF socket_command_set_fan_speed_bytes(input).ok
    THEN socket_command_set_fan_speed_bytes(input)
    ELSE IF socket_command_get_coolant_temp_bytes(input).ok
    THEN socket_command_get_coolant_temp_bytes(input)
    ELSE socket_command_get_pump_speed_bytes(input)

----------------------------------------------------------------------------
\* SocketResponse (socket_response.rs)

RespGetCoolantTemp(v) == [type |-> "GetCoolantTemp", value |-> v, success |-> FALSE]
RespGetPumpSpeed(v) == [type |-> "GetPumpSpeed", value |-> v, success |-> FALSE]
RespSetPumpSpeed(b) == [type |-> "SetPumpSpeed", value |-> 0, success |-> b]
RespSetColors(b) == [type |-> "SetColors", value |-> 0, success |-> b]

\* impl From<SocketResponse> for Vec<u8>
ResponseToBytes(r) ==
    CASE r.type = "GetCoolantTemp" ->
            <<SOCKET_COMMAND_GET_COOLANT_TEMP>> \o to_le_bytes(r.value)
      [] r.type = "GetPumpSpeed" ->
            <<SOCKET_COMMAND_GET_PUMP_SPEED>> \o to_le_bytes(r.value)
      [] r.type = "SetPumpSpeed" ->
            <<SOCKET_COMMAND_SET_PUMP_SPEED, IF r.success THEN 1 ELSE 0>>
      [] r.type = "SetColors" ->
            <<SOCKET_COMMAND_SET_COLORS, IF r.success THEN 1 ELSE 0>>

RespErr == [ok |-> FALSE, rest |-> <<>>, resp |-> RespSetColors(FALSE)]
RespOk(rest, resp) == [ok |-> TRUE, rest |-> rest, resp |-> resp]

socket_response_get_coolant_temp_bytes(input) ==
    IF Len(input) >= 1 /\ input[1] = SOCKET_COMMAND_GET_COOLANT_TEMP /\ Len(input) >= 3
    THEN RespOk(Drop(input, 3), RespGetCoolantTemp(from_le_bytes(input[2], input[3])))
    ELSE RespErr

socket_response_get_pump_speed_bytes(input) ==
    IF Len(input) >= 1 /\ input[1] = SOCKET_COMMAND_GET_PUMP_SPEED /\ Len(input) >= 3
    THEN RespOk(Drop(input, 3), RespGetPumpSpeed(from_le_bytes(input[2], input[3])))
    ELSE RespErr

socket_response_set_pump_speed_bytes(input) ==
    IF Len(input) >= 1 /\ input[1] = SOCKET_COMMAND_SET_PUMP_SPEED /\ Len(input) >= 2
    THEN RespOk(Drop(input, 2), RespSetPumpSpeed(input[2] = 1))
    ELSE RespErr

socket_response_set_colors_bytes(input) ==
    IF Len(input) >= 1 /\ input[1] = SOCKET_COMMAND_SET_COLORS /\ Len(input) >= 2
    THEN RespOk(Drop(input, 2), RespSetColors(input[2] = 1))
    ELSE RespErr

\* nom::branch::alt: the first parser that succeeds
socket_response_bytes(input) ==
    IF socket_response_get_coolant_temp_bytes(input).ok
    THEN socket_response_get_coolant_temp_bytes(input)
    ELSE IF socket_response_get_pump_speed_bytes(input).ok
    THEN socket_response_get_pump_speed_bytes(input)
    ELSE IF socket_response_set_pump_speed_bytes(input).ok
    THEN socket_response_set_pump_speed_bytes(input)
    ELSE socket_response_set_colors_bytes(input)

\* impl TryFrom<&[u8]> for SocketResponse: the unparsed rest is dropped
SocketResponseTryFrom(s) ==
    [ok |-> socket_response_bytes(s).ok, resp |-> socket_response_bytes(s).resp]

----------------------------------------------------------------------------
\* SocketCommandCodec (socket/mod.rs)

\* buf.windows(4).enumerate().filter_map(..): the 0-based offsets of CPLX
MarkerOffsets(b) ==
    {i \in 0..(Len(b) - 4) :
        /\ b[i + 1] = Marker[1]
        /\ b[i + 2] = Marker[2]
        /\ b[i + 3] = Marker[3]
        /\ b[i + 4] = Marker[4]}

\* the number of bytes split off the front of the buffer after a parse that
\* left `rest` of the bounded payload unparsed
SplitLen(b, end, rest) == Len(b) - Len(rest)

\* Decoder::decode(&mut self, src): the new buffer, what is left of src, and
\* the item (some = FALSE for Ok(None)); decode has no Err path.
Decode(buf0, src) ==
    LET b == buf0 \o src
        offs == MarkerOffsets(b)
    IN  IF offs = {}
        THEN [buf |-> b, src |-> <<>>, some |-> FALSE, item |-> GetCoolantTemp]
        ELSE LET next_command == SetMin(offs)
                 others == offs \ {next_command}
                 end == IF others # {} THEN SetMin(others) ELSE Len(b)
                 next_command_bytes == SubSeq(b, next_command + 4 + 1, end)
                 r == socket_command_bytes(next_command_bytes)
             IN  IF r.ok
                 THEN [buf |-> Drop(b, SplitLen(b, end, r.rest)), src |-> <<>>,
                       some |-> TRUE, item |-> r.cmd]
                 ELSE [buf |-> b, src |-> <<>>, some |-> FALSE, item |-> GetCoolantTemp]

\* a plausible slip: the accumulation buffer kept when nothing was decoded
DecodeEof_KeepsBuffer(buf0, src) ==
    LET r == Decode(buf0, src)
    IN  IF r.some
        THEN [buf |-> r.buf, src |-> r.src, some |-> TRUE, item |-> r.item, err |-> FALSE]
        ELSE [buf |-> r.buf, src |-> r.src, some |-> FALSE, item |-> r.item, err |-> FALSE]

\* Decoder::decode_eof(&mut self, buf): as Decode, with err for the Err result
DecodeEof(buf0, src) ==
    LET r == Decode(buf0, src)
    IN  IF r.some
        THEN [buf |-> r.buf, src |-> r.src, some |-> TRUE, item |-> r.item, err |-> FALSE]
        ELSE IF r.src = <<>>
        THEN [buf |-> <<>>, src |-> r.src, some |-> FALSE, item |-> r.item, err |-> FALSE]
        ELSE [buf |-> r.buf, src |-> r.src, some |-> FALSE, item |-> r.item, err |-> TRUE]

----------------------------------------------------------------------------
\* SpecCodec: the streams and the framed reader

\* what a small stream is made of: the marker, the one-byte commands, the two
\* halves of SetFanTarget(Fan(0), 50) and a byte that is no tag
Items == {Marker, <<0>>, <<1>>, <<2, 1>>, <<50, 0>>, <<9>>}

RECURSIVE Concat(_)
Concat(ss) == IF ss = <<>> THEN <<>> ELSE Head(ss) \o Concat(Tail(ss))

SmallStreams ==
    {Concat(ss) : ss \in UNION {[1..n -> Items] : n \in 0..MaxItems}}

\* every LED the same colour
Uniform(rgb) == [i \in 1..LED_COUNT_TOTAL |-> rgb]

\* a colour buffer whose first four bytes are 'C','P','L','X'
MarkerColors ==
    [i \in 1..LED_COUNT_TOTAL |->
        IF i = 1 THEN <<67, 80, 76>> ELSE IF i = 2 THEN <<88, 0, 0>> ELSE <<0, 0, 0>>]

ColorSamples == {Uniform(<<0, 0, 0>>), Uniform(<<255, 128, 1>>), MarkerColors}

\* a framed command as capellixctl writes it
Frame(c) == Marker \o CommandToBytes(c)

ColorStreams ==
    {Frame(SetColors(c)) \o t : c \in ColorSamples, t \in {<<>>, Frame(GetPumpSpeed)}}

\* the commands of the two-frame streams
SmallCommands ==
    {GetCoolantTemp, GetPumpSpeed, SetFanTarget(FanN(0), 50), SetFanTarget(FanN(6), 300)}

FrameStreams == {Frame(c1) \o Frame(c2) : c1 \in SmallCommands, c2 \in SmallCommands}

CodecStreams == SmallStreams \cup FrameStreams \cup ColorStreams

\* the offsets at which the model cuts a stream into chunks
CutAllowed(p) == p <= MaxFine \/ p >= Len(stream) - MaxFine

\* the variables of a specification that is not the one running
CodecIdle ==
    /\ stream = <<>> /\ pos = 0 /\ cbuf = <<>> /\ out = <<>>
    /\ is_readable = FALSE /\ eof = FALSE /\ cstatus = "idle"

RtIdle == rt_in = "none" /\ rt_bytes = <<>> /\ rt_out = "none" /\ rt_pc = "idle"

ReqIdle == req_cmds = <<>> /\ req_i = 0 /\ req_st = "idle" /\ req_err = 0

\* no thread calls if_changed, none calls change
ConsumerOff ==
    [pc |-> "off", entry |-> FALSE, runs |-> 0, some |-> FALSE, out |-> 0, rets |-> 0]
ProducerOff == [pc |-> "off", changed |-> FALSE, rets |-> 0]

AcIdle ==
    ac = [value |-> 0, changed |-> FALSE] /\ ac_c = ConsumerOff /\ ac_p = ProducerOff

TasksIdle ==
    /\ listen = FALSE /\ unrecognized_firmware = FALSE
    /\ file_values = {} /\ client_chunks = {}
    /\ temp_values = {} /\ speed_values = {}
    /\ writes_left = 0 /\ inputs_left = 0 /\ conns_left = 0 /\ signal = FALSE
    /\ pc = "idle" /\ result = "running" /\ join_i = 0
    /\ firmware = <<>>
    /\ coolant_temp = 0 /\ pump_speed = 0 /\ fan_targets = <<>> /\ colors = <<>>
    /\ chan = <<>> /\ colors_rx = "none" /\ exit_running = TRUE
    /\ wst = <<>> /\ wfile = <<>> /\ wnotify = <<>> /\ wmsg = <<>>
    /\ sst = "none" /\ sockets = <<>> /\ ubuf = <<>> /\ u_readable = FALSE
    /\ umsg = "none"
    /\ sess = <<>> /\ sconn = <<>> /\ sbuf = <<>> /\ s_readable = <<>>
    /\ smsg = <<>> /\ replies = <<>>

DaemonIdle == TasksIdle /\ probe_cap = 0 /\ hid = "none"

CodecInit ==
    /\ RtIdle /\ ReqIdle /\ AcIdle /\ DaemonIdle
    /\ stream \in CodecStreams
    /\ pos = 0
    /\ cbuf = <<>>
    /\ out = <<>>
    /\ is_readable = FALSE
    /\ eof = FALSE
    /\ cstatus = "open"

\* FramedRead::poll_next, a read of n > 0 bytes followed by decode
CodecRead ==
    /\ cstatus = "open" /\ ~is_readable /\ ~eof
    /\ \E n \in 1..(Len(stream) - pos) :
        /\ CutAllowed(pos + n)
        /\ LET r == Decode(cbuf, SubSeq(stream, pos + 1, pos + n))
           IN  /\ pos' = pos + n
               /\ cbuf' = r.buf
               /\ out' = IF r.some THEN Append(out, r.item) ELSE out
               /\ is_readable' = r.some
    /\ UNCHANGED <<stream, eof, cstatus, rtVars, reqVars, acVars, daemonVars>>

\* FramedRead::poll_next after a frame was returned: decode again, nothing read
CodecRedecode ==
    /\ cstatus = "open" /\ is_readable /\ ~eof
    /\ LET r == Decode(cbuf, <<>>)
       IN  /\ cbuf' = r.buf
           /\ out' = IF r.some THEN Append(out, r.item) ELSE out
           /\ is_readable' = r.some
    /\ UNCHANGED <<stream, pos, eof, cstatus, rtVars, reqVars, acVars, daemonVars>>

\* FramedRead::poll_next, a read of 0 bytes followed by decode_eof
CodecEof ==
    /\ cstatus = "open" /\ ~is_readable /\ ~eof
    /\ pos = Len(stream)
    /\ LET r == DecodeEof(cbuf, <<>>)
       IN  /\ cbuf' = r.buf
           /\ out' = IF r.some THEN Append(out, r.item) ELSE out
           /\ is_readable' = r.some
           /\ cstatus' = IF r.err THEN "error" ELSE IF r.some THEN "open" ELSE "ended"
    /\ eof' = TRUE
    /\ UNCHANGED <<stream, pos, rtVars, reqVars, acVars, daemonVars>>

CodecNext == CodecRead \/ CodecRedecode \/ CodecEof

SpecCodec == CodecInit /\ [][CodecNext]_vars

----------------------------------------------------------------------------
\* Claims about the codec (checked under SpecCodec)

\* every byte of the stream has been read and the decoder has returned None
Drained == pos = Len(stream) /\ ~is_readable

RECURSIVE DrainAll(_, _)
DrainAll(buf, acc) ==
    LET r == Decode(buf, <<>>)
    IN  IF r.some THEN DrainAll(r.buf, Append(acc, r.item)) ELSE acc

\* the commands decoded when the whole stream s arrives as one chunk
WholeStream(s) ==
    IF s = <<>> THEN <<>>
    ELSE LET r == Decode(<<>>, s)
         IN  IF r.some THEN DrainAll(r.buf, <<r.item>>) ELSE <<>>

\* C1: however the stream is cut into chunks, once all of it has been fed and
\* the decoder drained, the commands emitted are those of feeding the whole
\* stream as one chunk.
C1_ChunkIndependence == Drained => out = WholeStream(stream)

FrameCommands == SmallCommands \cup {SetColors(c) : c \in ColorSamples}

TwoFrames ==
    {<<c1, c2, Frame(c1) \o Frame(c2)>> : c1 \in FrameCommands, c2 \in SmallCommands}

\* C2: a stream of two consecutive valid framed commands, in one chunk or in
\* several, decodes to exactly command1 then command2.
C2_TwoFramesInOrder ==
    \A t \in TwoFrames : (stream = t[3] /\ Drained) => out = <<t[1], t[2]>>

\* C3: a decode call that emits a command leaves a later marker, and every
\* byte after it, in the accumulation buffer.
C3_LaterMarkerKept ==
    [][out' # out =>
        LET b == cbuf \o SubSeq(stream, pos + 1, pos')
            offs == MarkerOffsets(b)
        IN  Cardinality(offs) >= 2 =>
              LET second == SetMin(offs \ {SetMin(offs)})
                  kept == Len(b) - second
              IN  /\ Len(cbuf') >= kept
                  /\ Drop(cbuf', Len(cbuf') - kept) = Drop(b, second)]_vars

OneFrame == {<<c, Frame(c)>> : c \in FrameCommands}

\* C4: while the payload after the marker is an incomplete prefix of a valid
\* command, nothing is emitted and every byte is kept; the call in which the
\* missing bytes have arrived emits exactly that command.
C4_IncompleteThenOne ==
    [][\A t \in OneFrame : stream = t[2] =>
        /\ (pos' >= 4 /\ pos' < Len(stream)) =>
              (out' = <<>> /\ cbuf' = SubSeq(stream, 1, pos'))
        /\ (pos >= 4 /\ pos < Len(stream) /\ pos' = Len(stream)) =>
              out' = <<t[1]>>]_vars

\* C5: at end of stream, the result is an error if undecoded bytes remain in
\* the codec, and a clean end if none remain.
C5_EofErrorIffBytesRemain ==
    [][(cstatus = "open" /\ cstatus' # "open") =>
        (cstatus' = "error" <=> cbuf # <<>>)]_vars

\* a frame whose payload is the unknown tag 9, followed by the frame of c
AfterBadFrame(c) == Marker \o <<9>> \o Frame(c)

\* C33: when a valid framed command has arrived after a frame whose payload
\* can never become a command and the decoder has been drained, the command
\* has been emitted or the decoder has returned an error
C33_NoSilentStall ==
    \A c \in {GetCoolantTemp, GetPumpSpeed} :
        (stream = AfterBadFrame(c) /\ Drained)
            => ((\E i \in 1..Len(out) : out[i] = c) \/ cstatus = "error")

\* C34: the frame of any command, fed as one chunk to a codec with an empty
\* buffer, is decoded to that command and nothing is left in the buffer
C34_FrameDecodeIdentity ==
    [][\A t \in OneFrame :
        (stream = t[2] /\ pos = 0 /\ cbuf = <<>> /\ pos' = Len(stream))
            => (out' = <<t[1]>> /\ cbuf' = <<>>)]_vars

----------------------------------------------------------------------------
\* The daemon: Hid, SharedState, Capellix::run_async (hid/mod.rs, capellix.rs)

\* a plausible slip: the speed passed on as it is
validate_fan_speed_Unclamped(speed) == speed

\* hid::validate_fan_speed
validate_fan_speed(speed) == IF speed > 100 THEN 100 ELSE speed

NoMsg == [fan |-> Pump, speed |-> 0]
Msg(fan, speed) == [fan |-> fan, speed |-> speed]

\* what a device command can end in: the response echoes the command, the
\* write fails, or the read fails or echoes another byte
HidOutcomes == {"ok", "write_err", "resp_err"}

\* a plausible slip: a command whose response does not echo it is written again
HidCommand_Resend(h, cmd, o) ==
    IF o = "write_err" THEN h
    ELSE [software |-> h.software \/ cmd = "software",
          hardware |-> h.hardware \/ cmd = "hardware",
          speeds |-> h.speeds,
          issued |-> IF Len(h.issued) < probe_cap
                     THEN (IF o = "resp_err" THEN h.issued \o <<cmd, cmd>>
                           ELSE Append(h.issued, cmd))
                     ELSE h.issued]

\* Hid::command / Hid::request: cmd has been written unless the write failed
HidCommand(h, cmd, o) ==
    IF o = "write_err" THEN h
    ELSE [software |-> h.software \/ cmd = "software",
          hardware |-> h.hardware \/ cmd = "hardware",
          speeds |-> h.speeds,
          issued |-> IF Len(h.issued) < probe_cap
                     THEN Append(h.issued, cmd) ELSE h.issued]

\* the firmware versions the device may report
FirmwareSamples ==
    {<<2, 10, 219>>, <<2, 10, 220>>, <<2, 9, 220>>, <<3, 0, 0>>, <<1, 11, 219>>,
     <<3, 10, 219>>}

\* a plausible slip: the versions compared in major.minor.patch order
FirmwareGate_Lexicographic(v, override) ==
    LET older == \/ v[1] < 2
                 \/ v[1] = 2 /\ v[2] < 10
                 \/ v[1] = 2 /\ v[2] = 10 /\ v[3] < 219
    IN  IF older THEN "unsupported"
        ELSE IF ~override /\ v # <<2, 10, 219>> THEN "unexpected"
        ELSE "ok"

\* a plausible slip: only the patch field checked against a newer version
FirmwareGate_PatchOnly(v, override) ==
    IF v[1] < 2 \/ v[2] < 10 \/ v[3] < 219 THEN "unsupported"
    ELSE IF ~override /\ v[3] > 219 THEN "unexpected"
    ELSE "ok"

\* run_async: the firmware check, field by field
FirmwareGate(v, override) ==
    IF v[1] < 2 \/ v[2] < 10 \/ v[3] < 219 THEN "unsupported"
    ELSE IF ~override /\ (v[1] > 2 \/ v[2] > 10 \/ v[3] > 219) THEN "unexpected"
    ELSE "ok"

Watchers == 0..(NumWatchers - 1)
Sessions == 1..MaxSessions

\* a fan-target file: absent, a decimal number and a newline, or anything else
Absent == [kind |-> "absent", val |-> 0]
Num(n) == [kind |-> "num", val |-> n]
Garbage == [kind |-> "garbage", val |-> 0]
\* "100\n"
DefaultFile == Num(100)
\* what a fan-target file can hold when the daemon starts
InitialFiles == {Absent, Num(30)}

\* the tasks exist from the spawns in run_async until the process exits
Alive == pc \in {"loop", "join_fans", "hardware"}

\* a plausible slip: the join completes for a task that returned Ok only
Finished_OkOnly(st) == st = "done"

\* a JoinHandle<()> completes when its task has ended, with Ok or with Err
Finished(st) == st \in {"done", "failed"}

\* Capellix::run: block_on returns what run_async returns (`?` on an Err,
\* the final Ok(()), or a panic), the runtime is dropped with every task that
\* is still running, and main exits the process
Return(r) ==
    /\ pc' = "returned" /\ result' = r
    /\ writes_left' = 0 /\ inputs_left' = 0 /\ conns_left' = 0
    /\ join_i' = 0
    /\ coolant_temp' = 0 /\ pump_speed' = 0 /\ fan_targets' = <<>> /\ colors' = <<>>
    /\ chan' = <<>> /\ colors_rx' = [val |-> <<>>, changed |-> FALSE]
    /\ exit_running' = exit_running
    /\ wst' = [w \in Watchers |-> "gone"]
    /\ wfile' = [w \in Watchers |-> Absent]
    /\ wnotify' = [w \in Watchers |-> FALSE]
    /\ wmsg' = [w \in Watchers |-> NoMsg]
    /\ sst' = "gone" /\ sockets' = <<>> /\ ubuf' = <<>> /\ u_readable' = FALSE
    /\ umsg' = NoMsg
    /\ sess' = [s \in Sessions |-> "gone"]
    /\ sconn' = [s \in Sessions |-> FALSE]
    /\ sbuf' = [s \in Sessions |-> <<>>]
    /\ s_readable' = [s \in Sessions |-> FALSE]
    /\ smsg' = [s \in Sessions |-> NoMsg]
    /\ replies' = [s \in Sessions |-> <<>>]

\* a plausible slip: the steady state entered right after the firmware gate
Goto_SkipActivation(p) == pc' = (IF p = "lighting" THEN "loop" ELSE p) /\ result' = result

\* run_async goes on at p
Goto(p) == pc' = p /\ result' = result

\* self.hid.flush_read(50)?
OrchFlush ==
    /\ pc = "flush"
    /\ \E ok \in BOOLEAN :
        IF ok
        THEN Goto("software") /\ UNCHANGED <<budgetVars, join_i, stateVars, taskVars>>
        ELSE Return("err")
    /\ UNCHANGED <<codecVars, rtVars, reqVars, acVars, envVars, signal, firmware, hid>>

\* self.hid.command(&set_controller_state(SOFTWARE))?
OrchSoftware ==
    /\ pc = "software"
    /\ \E o \in HidOutcomes :
        /\ hid' = HidCommand(hid, "software", o)
        /\ IF o = "ok"
           THEN Goto("firmware") /\ UNCHANGED <<budgetVars, join_i, stateVars, taskVars>>
           ELSE Return("err")
    /\ UNCHANGED <<codecVars, rtVars, reqVars, acVars, envVars, signal, firmware>>

\* self.hid.command(GET_FIRMWARE_INFO)? and the version check
OrchFirmware ==
    /\ pc = "firmware"
    /\ \E o \in HidOutcomes, v \in FirmwareSamples :
        /\ hid' = HidCommand(hid, "firmware", o)
        /\ firmware' = IF o = "ok" THEN v ELSE firmware
        /\ IF o = "ok" /\ FirmwareGate(v, unrecognized_firmware) = "ok"
           THEN Goto("lighting") /\ UNCHANGED <<budgetVars, join_i, stateVars, taskVars>>
           ELSE Return("err")
    /\ UNCHANGED <<codecVars, rtVars, reqVars, acVars, envVars, signal>>

\* self.hid.request(request::enable_direct_lighting())?
OrchLighting ==
    /\ pc = "lighting"
    /\ \E o \in HidOutcomes :
        /\ hid' = HidCommand(hid, "enable_direct_lighting", o)
        /\ IF o = "ok"
           THEN Goto("fantypes") /\ UNCHANGED <<budgetVars, join_i, stateVars, taskVars>>
           ELSE Return("err")
    /\ UNCHANGED <<codecVars, rtVars, reqVars, acVars, envVars, signal, firmware>>

\* self.hid.request(request::set_fan_types_6x_ql())?, then the channels, the
\* spawn of the server and of one watcher per fan-target file, the streams
OrchFanTypes ==
    /\ pc = "fantypes"
    /\ \E o \in HidOutcomes :
        /\ hid' = HidCommand(hid, "set_fan_types", o)
        /\ IF o = "ok"
           THEN /\ Goto("loop")
                /\ sst' = IF listen THEN "init" ELSE "none"
                /\ wst' = [w \in Watchers |-> "init"]
                /\ UNCHANGED <<budgetVars, join_i, stateVars, chan, colors_rx,
                               exit_running, wfile, wnotify, wmsg, sockets, ubuf,
                               u_readable, umsg, sessVars>>
           ELSE Return("err")
    /\ UNCHANGED <<codecVars, rtVars, reqVars, acVars, envVars, signal, firmware>>

\* CapellixEvent::TempTick: temp_tick (no temperature offsets, no output file)
OrchTempTick ==
    /\ pc = "loop"
    /\ \E o \in HidOutcomes, t \in temp_values :
        /\ hid' = HidCommand(hid, "get_temp", o)
        /\ IF o = "ok"
           THEN /\ coolant_temp' = t
                /\ UNCHANGED <<pc, result, budgetVars, join_i, pump_speed, fan_targets,
                               colors, taskVars>>
           ELSE Return("err")
    /\ UNCHANGED <<codecVars, rtVars, reqVars, acVars, envVars, signal, firmware>>

\* CapellixEvent::SpeedTick: speed_tick (no output files)
OrchSpeedTick ==
    /\ pc = "loop"
    /\ \E o \in HidOutcomes, v \in speed_values :
        /\ hid' = HidCommand(hid, "get_speeds", o)
        /\ IF o = "ok"
           THEN /\ pump_speed' = v
                /\ UNCHANGED <<pc, result, budgetVars, join_i, coolant_temp, fan_targets,
                               colors, taskVars>>
           ELSE Return("err")
    /\ UNCHANGED <<codecVars, rtVars, reqVars, acVars, envVars, signal, firmware>>

\* a plausible slip: the speeds collected before the new target is stored
SetSpeedsArg_BeforeStore(targets, idx, in_speed) == [i \in 0..6 |-> targets[i]]

\* write_fan_target: the store, and the seven speeds collected after it
SetSpeedsArg(targets, idx, in_speed) ==
    LET stored == [targets EXCEPT ![idx] = in_speed]
    IN  [i \in 0..6 |-> stored[i]]

\* Hid::request(set_speeds(speeds)): the command, and the speeds it is built
\* from while the log has room
HidSetSpeeds(h, speeds, o) ==
    [HidCommand(h, "set_speeds", o) EXCEPT
        !.speeds = IF o # "write_err" /\ Len(h.issued) < probe_cap THEN speeds ELSE @]

\* CapellixEvent::SetFanSpeed: write_fan_target(fan, speed); the index into
\* the 7-element fan_targets panics when it is 7
OrchSetFanSpeed ==
    /\ pc = "loop"
    /\ chan # <<>>
    /\ LET in_speed == Head(chan).speed
           idx == FanToU8(Head(chan).fan)
           received == /\ chan' = Tail(chan)
                       /\ UNCHANGED <<pc, result, budgetVars, join_i, coolant_temp,
                                      pump_speed, colors, colors_rx, exit_running,
                                      watcherVars, serverVars, sessVars>>
       IN  IF idx > 6
           THEN Return("panic") /\ hid' = hid
           ELSE IF in_speed # fan_targets[idx]
           THEN \E o \in HidOutcomes :
                    /\ hid' = HidSetSpeeds(hid, SetSpeedsArg(fan_targets, idx, in_speed), o)
                    /\ IF o = "ok"
                       THEN /\ fan_targets' = [fan_targets EXCEPT ![idx] = in_speed]
                            /\ received
                       ELSE Return("err")
           ELSE UNCHANGED <<fan_targets, hid>> /\ received
    /\ UNCHANGED <<codecVars, rtVars, reqVars, acVars, envVars, signal, firmware>>

\* CapellixEvent::SetColors: write_colors(colors); the WatchStream yields the
\* channel's initial value first, then every value not yet seen
OrchSetColors ==
    /\ pc = "loop"
    /\ colors_rx.changed
    /\ \E o \in HidOutcomes :
        /\ hid' = HidCommand(hid, "set_colors", o)
        /\ IF o = "ok"
           THEN /\ colors' = colors_rx.val
                /\ colors_rx' = [colors_rx EXCEPT !.changed = FALSE]
                /\ UNCHANGED <<pc, result, budgetVars, join_i, coolant_temp, pump_speed,
                               fan_targets, chan, exit_running, watcherVars,
                               serverVars, sessVars>>
           ELSE Return("err")
    /\ UNCHANGED <<codecVars, rtVars, reqVars, acVars, envVars, signal, firmware>>

\* CapellixEvent::Exit => break, then exit_tx.send(false)?
OrchExit ==
    /\ pc = "loop"
    /\ signal
    /\ exit_running' = FALSE
    /\ pc' = "join_fans"
    /\ join_i' = 0
    /\ UNCHANGED <<codecVars, rtVars, reqVars, acVars, envVars, budgetVars, signal,
                   result, firmware, hid, stateVars, chan, colors_rx,
                   watcherVars, serverVars, sessVars>>

\* for handle in fan_join_handles { handle?.await?; }
OrchJoinFan ==
    /\ pc = "join_fans"
    /\ join_i < NumWatchers
    /\ Finished(wst[join_i])
    /\ join_i' = join_i + 1
    /\ UNCHANGED <<codecVars, rtVars, reqVars, acVars, envVars, budgetVars, signal,
                   pc, result, firmware, hid, stateVars, taskVars>>

\* if let Some(handle) = server_join_handle { handle.await?; }
OrchJoinServer ==
    /\ pc = "join_fans"
    /\ join_i = NumWatchers
    /\ listen => Finished(sst)
    /\ pc' = "hardware"
    /\ UNCHANGED <<codecVars, rtVars, reqVars, acVars, envVars, budgetVars, signal,
                   result, join_i, firmware, hid, stateVars, taskVars>>

\* self.hid.request([set_controller_state(HARDWARE)])?; Ok(())
OrchHardware ==
    /\ pc = "hardware"
    /\ \E o \in HidOutcomes :
        /\ hid' = HidCommand(hid, "hardware", o)
        /\ Return(IF o = "ok" THEN "ok" ELSE "err")
    /\ UNCHANGED <<codecVars, rtVars, reqVars, acVars, envVars, signal, firmware>>

OrchNext ==
    \/ OrchFlush \/ OrchSoftware \/ OrchFirmware \/ OrchLighting \/ OrchFanTypes
    \/ OrchTempTick \/ OrchSpeedTick \/ OrchSetFanSpeed \/ OrchSetColors
    \/ OrchExit \/ OrchJoinFan \/ OrchJoinServer \/ OrchHardware

\* SignalStream: an interrupt, hangup or terminate signal arrives
EnvSignal ==
    /\ pc = "loop"
    /\ ~signal
    /\ signal' = TRUE
    /\ UNCHANGED <<codecVars, rtVars, reqVars, acVars, envVars, writes_left, inputs_left, conns_left,
                   orchVars, stateVars, chan, colors_rx, exit_running,
                   watcherVars, serverVars, sessVars>>

----------------------------------------------------------------------------
\* FanTargetThread (pump_target.rs)

\* the fan of the i-th fan-target file: Fan::try_from(i as u8)?
WatcherFan(w) == FanTryFromU8(w).fan

\* a plausible slip: content that does not parse taken as speed 0
OnChange_ZeroOnGarbage(w, content) ==
    LET speed == IF content.kind = "num" THEN validate_fan_speed(content.val) ELSE 0
    IN  /\ IF Len(chan) < FanChannelCapacity
           THEN /\ chan' = Append(chan, Msg(WatcherFan(w), speed))
                /\ wst' = [wst EXCEPT ![w] = "wait"]
                /\ wmsg' = wmsg
           ELSE /\ wmsg' = [wmsg EXCEPT ![w] = Msg(WatcherFan(w), speed)]
                /\ wst' = [wst EXCEPT ![w] = "sending"]
                /\ chan' = chan
        /\ wfile' = [wfile EXCEPT ![w] = content]
        /\ wnotify' = [wnotify EXCEPT ![w] = FALSE]

\* on_change: read the file and parse it; send the clamped speed, suspended
\* while the channel is full, or reset the file, which raises a MODIFY event
OnChange(w, content) ==
    IF content.kind = "num"
    THEN /\ IF Len(chan) < FanChannelCapacity
            THEN /\ chan' = Append(chan, Msg(WatcherFan(w), validate_fan_speed(content.val)))
                 /\ wst' = [wst EXCEPT ![w] = "wait"]
                 /\ wmsg' = wmsg
            ELSE /\ wmsg' = [wmsg EXCEPT ![w] = Msg(WatcherFan(w), validate_fan_speed(content.val))]
                 /\ wst' = [wst EXCEPT ![w] = "sending"]
                 /\ chan' = chan
         /\ wfile' = [wfile EXCEPT ![w] = content]
         /\ wnotify' = [wnotify EXCEPT ![w] = FALSE]
    ELSE /\ wfile' = [wfile EXCEPT ![w] = DefaultFile]
         /\ wnotify' = [wnotify EXCEPT ![w] = TRUE]
         /\ wst' = [wst EXCEPT ![w] = "wait"]
         /\ UNCHANGED <<chan, wmsg>>

\* FanTargetThread::run up to the loop: create the file if it does not exist,
\* add the inotify watch, on_change().await?
WatcherStart(w) ==
    /\ Alive
    /\ wst[w] = "init"
    /\ \E io_ok \in BOOLEAN :
        IF io_ok
        THEN OnChange(w, IF wfile[w].kind = "absent" THEN DefaultFile ELSE wfile[w])
        ELSE /\ wst' = [wst EXCEPT ![w] = "failed"]
             /\ UNCHANGED <<chan, wfile, wnotify, wmsg>>
    /\ UNCHANGED <<codecVars, rtVars, reqVars, acVars, envVars, writes_left, inputs_left, conns_left, signal,
                   orchVars, stateVars, colors_rx, exit_running, serverVars, sessVars>>

\* FanTargetEvent::Modify(event): event?; on_change().await?
WatcherModify(w) ==
    /\ Alive
    /\ wst[w] = "wait"
    /\ wnotify[w]
    /\ \E io_ok \in BOOLEAN :
        IF io_ok
        THEN OnChange(w, wfile[w])
        ELSE /\ wst' = [wst EXCEPT ![w] = "failed"]
             /\ UNCHANGED <<chan, wfile, wnotify, wmsg>>
    /\ UNCHANGED <<codecVars, rtVars, reqVars, acVars, envVars, writes_left, inputs_left, conns_left, signal,
                   orchVars, stateVars, colors_rx, exit_running, serverVars, sessVars>>

\* set_pump_speed_tx.send((fan, speed)).await resumes: the channel has room
WatcherSend(w) ==
    /\ Alive
    /\ wst[w] = "sending"
    /\ Len(chan) < FanChannelCapacity
    /\ chan' = Append(chan, wmsg[w])
    /\ wmsg' = [wmsg EXCEPT ![w] = NoMsg]
    /\ wst' = [wst EXCEPT ![w] = "wait"]
    /\ UNCHANGED <<codecVars, rtVars, reqVars, acVars, envVars, writes_left, inputs_left, conns_left, signal,
                   orchVars, stateVars, colors_rx, exit_running, wfile, wnotify,
                   serverVars, sessVars>>

\* FanTargetEvent::RunningChanged(false) => break
WatcherExit(w) ==
    /\ Alive
    /\ wst[w] = "wait"
    /\ ~exit_running
    /\ wst' = [wst EXCEPT ![w] = "done"]
    /\ UNCHANGED <<codecVars, rtVars, reqVars, acVars, envVars, writes_left, inputs_left, conns_left, signal,
                   orchVars, stateVars, chan, colors_rx, exit_running,
                   wfile, wnotify, wmsg, serverVars, sessVars>>

WatcherNext ==
    \E w \in Watchers :
        WatcherStart(w) \/ WatcherModify(w) \/ WatcherSend(w) \/ WatcherExit(w)

\* the environment writes a fan-target file that is being watched
EnvFileWrite ==
    /\ Alive
    /\ writes_left > 0
    /\ \E w \in Watchers, c \in file_values :
        /\ wst[w] \in {"wait", "sending"}
        /\ wfile' = [wfile EXCEPT ![w] = c]
        /\ wnotify' = [wnotify EXCEPT ![w] = TRUE]
    /\ writes_left' = writes_left - 1
    /\ UNCHANGED <<codecVars, rtVars, reqVars, acVars, envVars, inputs_left, conns_left, signal,
                   orchVars, stateVars, chan, colors_rx, exit_running,
                   wst, wmsg, serverVars, sessVars>>

----------------------------------------------------------------------------
\* SocketCommand::run, ServerThread, SocketThread (socket_command.rs,
\* server_thread.rs, socket/mod.rs)

\* a plausible slip: the value written high byte first
Reply_BigEndian(cmd) ==
    IF cmd.type = "GetCoolantTemp"
    THEN <<0, coolant_temp \div 256, coolant_temp % 256>>
    ELSE IF cmd.type = "GetPumpSpeed"
    THEN <<1, pump_speed \div 256, pump_speed % 256>>
    ELSE <<1>>

\* SocketCommand::run: what is written to the sink
Reply(cmd) ==
    IF cmd.type = "GetCoolantTemp" THEN <<0>> \o to_le_bytes(coolant_temp)
    ELSE IF cmd.type = "GetPumpSpeed" THEN <<1>> \o to_le_bytes(pump_speed)
    ELSE <<1>>

\* SocketCommand::run: set_pump_speed_tx.send(..).await finds the channel full
Suspends(cmd) == cmd.type = "SetFanTarget" /\ Len(chan) >= FanChannelCapacity

\* a plausible slip: a published buffer kept until the orchestrator has
\* taken it, later ones dropped
CommandSends_KeepPending(cmd) ==
    /\ chan' = IF cmd.type = "SetFanTarget" /\ ~Suspends(cmd)
               THEN Append(chan, Msg(cmd.fan, validate_fan_speed(cmd.speed)))
               ELSE chan
    /\ colors_rx' = IF cmd.type = "SetColors" /\ ~colors_rx.changed
                    THEN [val |-> cmd.colors, changed |-> TRUE]
                    ELSE colors_rx

\* SocketCommand::run: the sends on the two channels
CommandSends(cmd) ==
    /\ chan' = IF cmd.type = "SetFanTarget" /\ ~Suspends(cmd)
               THEN Append(chan, Msg(cmd.fan, validate_fan_speed(cmd.speed)))
               ELSE chan
    /\ colors_rx' = IF cmd.type = "SetColors"
                    THEN [val |-> cmd.colors, changed |-> TRUE]
                    ELSE colors_rx

\* sink.write(..).await? on the TCP write half: it can fail once the peer has
\* closed the connection
SessionReply(s, bytes) ==
    \E wr_ok \in IF sconn[s] THEN {TRUE} ELSE BOOLEAN :
        IF wr_ok
        THEN /\ replies' = [replies EXCEPT ![s] = Append(@, bytes)]
             /\ sess' = [sess EXCEPT ![s] = "run"]
        ELSE /\ replies' = replies
             /\ sess' = [sess EXCEPT ![s] = "failed"]

\* a plausible slip: the reply written before the send has completed
SessionRun_ReplyFirst(s, cmd) ==
    /\ CommandSends(cmd)
    /\ IF Suspends(cmd)
       THEN /\ sess' = [sess EXCEPT ![s] = "sending"]
            /\ smsg' = [smsg EXCEPT ![s] = Msg(cmd.fan, validate_fan_speed(cmd.speed))]
            /\ replies' = [replies EXCEPT ![s] = Append(@, Reply(cmd))]
       ELSE smsg' = smsg /\ SessionReply(s, Reply(cmd))

\* SocketEvent::Read(command): command?; command.run(..).await?
SessionRun(s, cmd) ==
    /\ CommandSends(cmd)
    /\ IF Suspends(cmd)
       THEN /\ sess' = [sess EXCEPT ![s] = "sending"]
            /\ smsg' = [smsg EXCEPT ![s] = Msg(cmd.fan, validate_fan_speed(cmd.speed))]
            /\ replies' = replies
       ELSE smsg' = smsg /\ SessionReply(s, Reply(cmd))

\* what SocketThread::run does with the result r of a decode call
SessionDecoded(s, r) ==
    /\ sbuf' = [sbuf EXCEPT ![s] = r.buf]
    /\ s_readable' = [s_readable EXCEPT ![s] = r.some]
    /\ IF r.some THEN SessionRun(s, r.item)
       ELSE UNCHANGED <<chan, colors_rx, sess, smsg, replies>>

\* FramedRead::poll_next: a chunk is read from the connection and decoded
SessionRecv(s) ==
    /\ Alive
    /\ sess[s] = "run" /\ sconn[s] /\ ~s_readable[s]
    /\ inputs_left > 0
    /\ inputs_left' = inputs_left - 1
    /\ \E d \in client_chunks : SessionDecoded(s, Decode(sbuf[s], d))
    /\ UNCHANGED <<codecVars, rtVars, reqVars, acVars, envVars, writes_left, conns_left, signal,
                   orchVars, stateVars, exit_running, watcherVars, serverVars, sconn>>

\* FramedRead::poll_next after a frame: decode is called again, on no new bytes
SessionRedecode(s) ==
    /\ Alive
    /\ sess[s] = "run" /\ s_readable[s]
    /\ SessionDecoded(s, Decode(sbuf[s], <<>>))
    /\ UNCHANGED <<codecVars, rtVars, reqVars, acVars, envVars, writes_left, inputs_left, conns_left, signal,
                   orchVars, stateVars, exit_running, watcherVars, serverVars, sconn>>

\* FramedRead::poll_next, a read of 0 bytes: decode_eof, then the framed
\* stream has ended and only the exit stream is left to the task; on an empty
\* buffer the call changes nothing
SessionEof(s) ==
    /\ Alive
    /\ sess[s] = "run" /\ ~sconn[s] /\ ~s_readable[s]
    /\ sbuf[s] # <<>>
    /\ LET r == DecodeEof(sbuf[s], <<>>)
       IN  IF r.err
           THEN /\ sess' = [sess EXCEPT ![s] = "failed"]
                /\ UNCHANGED <<sbuf, s_readable, chan, colors_rx, smsg, replies>>
           ELSE SessionDecoded(s, r)
    /\ UNCHANGED <<codecVars, rtVars, reqVars, acVars, envVars, writes_left, inputs_left, conns_left, signal,
                   orchVars, stateVars, exit_running, watcherVars, serverVars, sconn>>

\* set_pump_speed_tx.send(..).await resumes, then sink.write(&[1]).await?
SessionSend(s) ==
    /\ Alive
    /\ sess[s] = "sending"
    /\ Len(chan) < FanChannelCapacity
    /\ chan' = Append(chan, smsg[s])
    /\ smsg' = [smsg EXCEPT ![s] = NoMsg]
    /\ SessionReply(s, <<1>>)
    /\ UNCHANGED <<codecVars, rtVars, reqVars, acVars, envVars, writes_left, inputs_left, conns_left, signal,
                   orchVars, stateVars, colors_rx, exit_running, watcherVars, serverVars,
                   sconn, sbuf, s_readable>>

\* SocketEvent::RunningChanged(false) => break
SessionExit(s) ==
    /\ Alive
    /\ sess[s] = "run"
    /\ ~exit_running
    /\ sess' = [sess EXCEPT ![s] = "done"]
    /\ UNCHANGED <<codecVars, rtVars, reqVars, acVars, envVars, writes_left, inputs_left, conns_left, signal,
                   orchVars, stateVars, chan, colors_rx, exit_running, watcherVars,
                   serverVars, sconn, sbuf, s_readable, smsg, replies>>

\* the peer closes its connection
EnvClose(s) ==
    /\ Alive
    /\ sess[s] # "none" /\ sconn[s]
    /\ inputs_left > 0
    /\ inputs_left' = inputs_left - 1
    /\ sconn' = [sconn EXCEPT ![s] = FALSE]
    /\ UNCHANGED <<codecVars, rtVars, reqVars, acVars, envVars, writes_left, conns_left, signal,
                   orchVars, stateVars, chan, colors_rx, exit_running, watcherVars,
                   serverVars, sess, sbuf, s_readable, smsg, replies>>

SessionNext ==
    \E s \in Sessions :
        \/ SessionRecv(s) \/ SessionRedecode(s) \/ SessionEof(s)
        \/ SessionSend(s) \/ SessionExit(s) \/ EnvClose(s)

\* TcpListener::bind(..).await?, UdpSocket::bind(..).await?
ServerBind ==
    /\ Alive
    /\ sst = "init"
    /\ \E ok \in BOOLEAN : sst' = IF ok THEN "run" ELSE "failed"
    /\ UNCHANGED <<codecVars, rtVars, reqVars, acVars, envVars, writes_left, inputs_left, conns_left, signal,
                   orchVars, stateVars, chan, colors_rx, exit_running, watcherVars,
                   sockets, ubuf, u_readable, umsg, sessVars>>

\* ServerEvent::TcpConnection(stream): stream?, then the session is spawned
\* and its handle pushed; an accept error returns from run at once
ServerAccept ==
    /\ Alive
    /\ sst = "run"
    /\ conns_left > 0
    /\ conns_left' = conns_left - 1
    /\ \E ok \in BOOLEAN :
        IF ok
        THEN LET s == SetMin({t \in Sessions : sess[t] = "none"})
             IN  /\ sess' = [sess EXCEPT ![s] = "run"]
                 /\ sconn' = [sconn EXCEPT ![s] = TRUE]
                 /\ sockets' = Append(sockets, s)
                 /\ sst' = sst
        ELSE /\ sst' = "failed"
             /\ UNCHANGED <<sess, sconn, sockets>>
    /\ UNCHANGED <<codecVars, rtVars, reqVars, acVars, envVars, writes_left, inputs_left, signal,
                   orchVars, stateVars, chan, colors_rx, exit_running, watcherVars,
                   ubuf, u_readable, umsg, sbuf, s_readable, smsg, replies>>

\* ServerEvent::UdpPacket(packet): packet?; command.run(.., vec![]).await?
ServerDecoded(r) ==
    IF r.err
    THEN sst' = "failed" /\ UNCHANGED <<ubuf, u_readable, umsg, chan, colors_rx>>
    ELSE /\ ubuf' = r.buf
         /\ u_readable' = r.some
         /\ IF r.some
            THEN /\ CommandSends(r.item)
                 /\ IF Suspends(r.item)
                    THEN /\ sst' = "sending"
                         /\ umsg' = Msg(r.item.fan, validate_fan_speed(r.item.speed))
                    ELSE UNCHANGED <<sst, umsg>>
            ELSE UNCHANGED <<sst, umsg, chan, colors_rx>>

\* UdpFramed::poll_next: a datagram is received and handed to decode_eof
ServerUdpRecv ==
    /\ Alive
    /\ sst = "run" /\ ~u_readable
    /\ inputs_left > 0
    /\ inputs_left' = inputs_left - 1
    /\ \E d \in client_chunks : ServerDecoded(DecodeEof(ubuf, d))
    /\ UNCHANGED <<codecVars, rtVars, reqVars, acVars, envVars, writes_left, conns_left, signal,
                   orchVars, stateVars, exit_running, watcherVars, sockets, sessVars>>

\* UdpFramed::poll_next after a frame: decode_eof again, on the emptied
\* datagram; a None clears the codec's buffer
ServerUdpRedecode ==
    /\ Alive
    /\ sst = "run" /\ u_readable
    /\ ServerDecoded(DecodeEof(ubuf, <<>>))
    /\ UNCHANGED <<codecVars, rtVars, reqVars, acVars, envVars, writes_left, inputs_left, conns_left, signal,
                   orchVars, stateVars, exit_running, watcherVars, sockets, sessVars>>

\* set_pump_speed_tx.send(..).await resumes in the server task
ServerSend ==
    /\ Alive
    /\ sst = "sending"
    /\ Len(chan) < FanChannelCapacity
    /\ chan' = Append(chan, umsg)
    /\ umsg' = NoMsg
    /\ sst' = "run"
    /\ UNCHANGED <<codecVars, rtVars, reqVars, acVars, envVars, writes_left, inputs_left, conns_left, signal,
                   orchVars, stateVars, colors_rx, exit_running, watcherVars,
                   sockets, ubuf, u_readable, sessVars>>

\* ServerEvent::RunningChanged(false) => break
ServerExit ==
    /\ Alive
    /\ sst = "run"
    /\ ~exit_running
    /\ sst' = "joining"
    /\ UNCHANGED <<codecVars, rtVars, reqVars, acVars, envVars, writes_left, inputs_left, conns_left, signal,
                   orchVars, stateVars, chan, colors_rx, exit_running, watcherVars,
                   sockets, ubuf, u_readable, umsg, sessVars>>

\* for handle in self.sockets.into_iter() { handle.await?; } Ok(())
ServerJoin ==
    /\ Alive
    /\ sst = "joining"
    /\ \A k \in 1..Len(sockets) : Finished(sess[sockets[k]])
    /\ sst' = "done"
    /\ UNCHANGED <<codecVars, rtVars, reqVars, acVars, envVars, writes_left, inputs_left, conns_left, signal,
                   orchVars, stateVars, chan, colors_rx, exit_running, watcherVars,
                   sockets, ubuf, u_readable, umsg, sessVars>>

ServerNext ==
    \/ ServerBind \/ ServerAccept \/ ServerUdpRecv \/ ServerUdpRedecode
    \/ ServerSend \/ ServerExit \/ ServerJoin

----------------------------------------------------------------------------
\* Spec: the daemon and its environment

\* what clients send: two well-formed frames, a frame with an unknown tag and
\* a frame with an invalid fan id
ClientChunks ==
    {Frame(GetCoolantTemp), Frame(GetPumpSpeed), Frame(SetFanTarget(FanN(0), 150)),
     Marker \o <<9>>, Marker \o <<SOCKET_COMMAND_SET_PUMP_SPEED, 9, 0, 0>>}

DaemonInit ==
    /\ CodecIdle /\ RtIdle /\ ReqIdle /\ AcIdle
    /\ signal = FALSE
    /\ pc = "flush" /\ result = "running" /\ join_i = 0
    /\ firmware = <<>>
    /\ hid = [software |-> FALSE, hardware |-> FALSE, speeds |-> <<>>, issued |-> <<>>]
    /\ coolant_temp = 312 /\ pump_speed = 2268
    /\ fan_targets = [i \in 0..6 |-> 50]
    /\ colors = Uniform(<<0, 0, 0>>)
    /\ chan = <<>>
    /\ colors_rx = [val |-> Uniform(<<0, 0, 0>>), changed |-> TRUE]
    /\ exit_running = TRUE
    /\ wst = [w \in Watchers |-> "none"]
    /\ wnotify = [w \in Watchers |-> FALSE]
    /\ wmsg = [w \in Watchers |-> NoMsg]
    /\ sst = "none" /\ sockets = <<>> /\ ubuf = <<>> /\ u_readable = FALSE
    /\ umsg = NoMsg
    /\ sess = [s \in Sessions |-> "none"]
    /\ sconn = [s \in Sessions |-> FALSE]
    /\ sbuf = [s \in Sessions |-> <<>>]
    /\ s_readable = [s \in Sessions |-> FALSE]
    /\ smsg = [s \in Sessions |-> NoMsg]
    /\ replies = [s \in Sessions |-> <<>>]

\* no server: file writes of every kind, either firmware flag
InitQuiet ==
    /\ listen = FALSE
    /\ unrecognized_firmware \in BOOLEAN
    /\ file_values = {Num(150), Garbage}
    /\ client_chunks = {}
    /\ temp_values = {312, 305}
    /\ speed_values = {2268, 2400}
    /\ probe_cap = 0
    /\ wfile \in [Watchers -> InitialFiles]
    /\ writes_left = MaxWrites
    /\ inputs_left = 0
    /\ conns_left = 0

\* a server and a few clients
InitServed ==
    /\ listen = TRUE
    /\ unrecognized_firmware = FALSE
    /\ file_values = {}
    /\ client_chunks = ClientChunks
    /\ temp_values = {312, 305}
    /\ speed_values = {2268}
    /\ probe_cap = 0
    /\ wfile = [w \in Watchers |-> Absent]
    /\ writes_left = 0
    /\ inputs_left = MaxInputs
    /\ conns_left = MaxSessions

\* the fan-target files are rewritten as often as the channel has places,
\* and a client sends a speed by a datagram or on a connection
InitFlood ==
    /\ listen = TRUE
    /\ unrecognized_firmware = FALSE
    /\ file_values = {DefaultFile}
    /\ client_chunks = {Frame(SetFanTarget(Pump, 100))}
    /\ temp_values = {312}
    /\ speed_values = {2268}
    /\ probe_cap = 0
    /\ wfile = [w \in Watchers |-> Absent]
    /\ writes_left = FanChannelCapacity
    /\ inputs_left = 1
    /\ conns_left = 1

Init == DaemonInit /\ (InitQuiet \/ InitServed \/ InitFlood)

Next ==
    \/ OrchNext \/ EnvSignal
    \/ WatcherNext \/ EnvFileWrite
    \/ ServerNext \/ SessionNext

Spec == Init /\ [][Next]_vars

\* the payload decode looks at: from the first marker of b to the next
\* marker or to the end of b
FirstPayload(b) ==
    LET offs == MarkerOffsets(b)
        next_command == SetMin(offs)
        others == offs \ {next_command}
        end == IF others # {} THEN SetMin(others) ELSE Len(b)
    IN  SubSeq(b, next_command + 4 + 1, end)

\* a payload that is not a prefix of any valid command: an unknown tag, or
\* the fan-speed tag followed by an invalid fan id
Malformed(p) ==
    /\ p # <<>>
    /\ \/ p[1] \notin {SOCKET_COMMAND_GET_COOLANT_TEMP, SOCKET_COMMAND_GET_PUMP_SPEED,
                       SOCKET_COMMAND_SET_PUMP_SPEED, SOCKET_COMMAND_SET_COLORS}
       \/ p[1] = SOCKET_COMMAND_SET_PUMP_SPEED /\ Len(p) >= 2 /\ ~FanTryFromU8(p[2]).ok

\* session s has decoded a buffer whose first frame is malformed
HoldsMalformed(s) ==
    /\ sess[s] # "none"
    /\ ~s_readable[s]
    /\ MarkerOffsets(sbuf[s]) # {}
    /\ Malformed(FirstPayload(sbuf[s]))

\* C7: a session that has received a framed command with a malformed payload
\* has ended with a decode error (the server and the other sessions are not
\* affected by it)
C7_MalformedEndsSession ==
    \A s \in Sessions : HoldsMalformed(s) => sess[s] = "failed"

\* C8: whenever run_async has returned after the SOFTWARE command was sent,
\* the HARDWARE command has been sent to the device
C8_HardwareBeforeReturn ==
    (pc = "returned" /\ hid.software) => hid.hardware

\* every task run_async or the server has spawned has finished
AllTasksFinished ==
    /\ \A w \in Watchers : Finished(wst[w])
    /\ listen => Finished(sst)
    /\ \A s \in Sessions : sess[s] = "none" \/ Finished(sess[s])

\* C9: the step that sends the HARDWARE command starts in a state in which
\* false has been broadcast on the exit channel and every watcher, the server
\* and every session has finished
C9_HardwareAfterAllFinished ==
    [][(~hid.hardware /\ hid'.hardware) => (~exit_running /\ AllTasksFinished)]_vars

----------------------------------------------------------------------------
\* SpecShutdown: the daemon without --listen, its fan-target files rewritten
\* as often as the channel has places

ShutdownInit ==
    /\ DaemonInit
    /\ listen = FALSE
    /\ unrecognized_firmware = FALSE
    /\ file_values = {DefaultFile}
    /\ client_chunks = {}
    /\ temp_values = {312}
    /\ speed_values = {2268}
    /\ probe_cap = 0
    /\ wfile \in [Watchers -> InitialFiles]
    /\ writes_left = FanChannelCapacity
    /\ inputs_left = 0
    /\ conns_left = 0

\* no server is spawned, so that no server and no session can take a step
ShutdownNext == OrchNext \/ EnvSignal \/ WatcherNext \/ EnvFileWrite

SpecShutdown == ShutdownInit /\ [][ShutdownNext]_vars

\* a step of the orchestrator or of one of the tasks
DaemonStep == OrchNext \/ WatcherNext \/ ServerNext \/ SessionNext

\* C10: once a signal has been received, shutdown is never stuck: until
\* run_async has returned, the orchestrator or some task can take a step
C10_ShutdownNeverStuck ==
    (signal /\ pc # "returned") => ENABLED DaemonStep

----------------------------------------------------------------------------
\* SpecDevice: the daemon with the commands written to the device logged

\* what the client sends: a speed above 100 for the last fan, and the start
\* of a frame
DeviceChunks ==
    {Frame(SetFanTarget(FanN(6), 150)), Marker \o <<SOCKET_COMMAND_SET_PUMP_SPEED>>}

\* a server, one client, one file write; the expected firmware only
DeviceServed ==
    /\ listen = TRUE
    /\ unrecognized_firmware = FALSE
    /\ file_values = {Num(150)}
    /\ client_chunks = DeviceChunks
    /\ writes_left = MaxWrites
    /\ inputs_left = MaxInputs
    /\ conns_left = 1

\* the override set, no server and a quiet environment
DeviceOverride ==
    /\ listen = FALSE
    /\ unrecognized_firmware = TRUE
    /\ file_values = {}
    /\ client_chunks = {}
    /\ writes_left = 0
    /\ inputs_left = 0
    /\ conns_left = 0

DeviceInit ==
    /\ DaemonInit
    /\ DeviceServed \/ DeviceOverride
    /\ temp_values = {312}
    /\ speed_values = {2268}
    /\ probe_cap = MaxIssued
    /\ wfile = [w \in Watchers |-> Absent]

\* with so few messages the channel never fills, no send is ever suspended
\* and none resumes
DeviceNext ==
    \/ OrchNext \/ EnvSignal \/ EnvFileWrite
    \/ \E w \in Watchers : WatcherStart(w) \/ WatcherModify(w) \/ WatcherExit(w)
    \/ ServerBind \/ ServerAccept \/ ServerUdpRecv \/ ServerUdpRedecode
    \/ ServerExit \/ ServerJoin
    \/ \E s \in Sessions :
        \/ SessionRecv(s) \/ SessionRedecode(s) \/ SessionEof(s)
        \/ SessionExit(s) \/ EnvClose(s)

SpecDevice == DeviceInit /\ [][DeviceNext]_vars

\* the orchestrator has acted on a message, a session has been replied to
\* and a watcher has emitted
C11_Witness ==
    /\ pc = "loop"
    /\ \E i \in 1..Len(hid.issued) : hid.issued[i] = "set_speeds"
    /\ \E s \in Sessions : replies[s] # <<>>
    /\ \E w \in Watchers : wst[w] = "wait"

\* C11: every step that writes to the device is a step of the orchestrator
\* and writes one command; the steps of sessions, of the server's datagram
\* path and of watchers leave the device alone
C11_DeviceOnlyByOrchestrator ==
    [][(hid' # hid) => (OrchNext /\ Len(hid'.issued) <= Len(hid.issued) + 1)]_vars

\* a field of v is below the baseline's
BelowBaseline(v) == v[1] < 2 \/ v[2] < 10 \/ v[3] < 219

\* v is newer than the baseline in major.minor.patch order
NewerThanBaseline(v) ==
    \/ v[1] > 2
    \/ v[1] = 2 /\ v[2] > 10
    \/ v[1] = 2 /\ v[2] = 10 /\ v[3] > 219

\* run_async has returned an error from the firmware check
RejectedAtGate ==
    /\ pc = "returned" /\ result = "err"
    /\ hid.issued = <<"software", "firmware">>

ExitCode(r) == IF r = "ok" THEN 0 ELSE IF r = "err" THEN 1 ELSE 101

C13_Witness == ~unrecognized_firmware /\ firmware = <<2, 10, 220>> /\ pc = "returned"

\* C13: without the override, run_async goes past the firmware check only
\* with version 2.10.219; with any other version it returns an error with
\* nothing written after the version request, and the exit code is not 0
C13_ExactVersionWithoutOverride ==
    ~unrecognized_firmware =>
        /\ (pc \in {"lighting", "fantypes", "loop", "join_fans", "hardware"}
              \/ Len(hid.issued) > 2) => firmware = <<2, 10, 219>>
        /\ (firmware # <<>> /\ firmware # <<2, 10, 219>>) =>
              (RejectedAtGate /\ ExitCode(result) # 0)

\* C14: with the override set, a version newer than the baseline in
\* major.minor.patch order is not rejected by the firmware check
C14_NewerPassesWithOverride ==
    (unrecognized_firmware /\ firmware # <<>> /\ NewerThanBaseline(firmware))
        => ~RejectedAtGate

\* the initialization commands, in order
InitCommands == <<"software", "firmware", "enable_direct_lighting", "set_fan_types">>

\* the commands of the steady state
SteadyCommands == {"get_temp", "get_speeds", "set_speeds", "set_colors"}

C15_Witness ==
    hid.issued = InitCommands \o <<"get_temp", "hardware">>

\* C15: the commands written to the device are the four initialization
\* commands in order, the version having passed the check before the third,
\* then steady-state commands only, then at most the HARDWARE command, after
\* which nothing is written
C15_CommandOrder ==
    LET L == hid.issued
    IN  /\ \A i \in 1..Len(L) :
              /\ i <= Len(InitCommands) => L[i] = InitCommands[i]
              /\ i > Len(InitCommands) => L[i] \in SteadyCommands \cup {"hardware"}
              /\ L[i] = "hardware" => i = Len(L)
        /\ Len(L) >= 3 =>
              (firmware # <<>> /\ FirmwareGate(firmware, unrecognized_firmware) = "ok")

\* the speeds the fan-target files and the clients ask for
RequestedSpeeds ==
    {f.val : f \in {g \in file_values \cup InitialFiles \cup {DefaultFile} :
                         g.kind = "num"}}
        \cup {socket_command_bytes(SubSeq(d, 5, Len(d))).cmd.speed :
                d \in {e \in client_chunks :
                          /\ socket_command_bytes(SubSeq(e, 5, Len(e))).ok
                          /\ socket_command_bytes(SubSeq(e, 5, Len(e))).cmd.type
                                 = "SetFanTarget"}}

\* the messages on the fan-target channel and those a suspended send holds
FanMessages ==
    {chan[i] : i \in 1..Len(chan)}
        \cup (IF Alive
              THEN {wmsg[w] : w \in {x \in Watchers : wst[x] = "sending"}}
                     \cup {smsg[s] : s \in {x \in Sessions : sess[x] = "sending"}}
                     \cup (IF sst = "sending" THEN {umsg} ELSE {})
              ELSE {})

\* a file holding 150 has been read, 100 has been sent and stored
C17_Witness ==
    /\ pc = "loop"
    /\ \E w \in Watchers :
          wfile[w] = Num(150) /\ fan_targets[FanToU8(WatcherFan(w))] = 100

\* C17: every message sent on the fan-target channel carries the smaller of
\* a requested speed and 100, and no stored fan target is above 100
C17_SpeedsClamped ==
    /\ \A m \in FanMessages :
          \E v \in RequestedSpeeds : m.speed = (IF v < 100 THEN v ELSE 100)
    /\ \A i \in DOMAIN fan_targets : fan_targets[i] <= 100

\* a session has answered GetCoolantTemp with 312 and, after a tick of the
\* orchestrator, with 305
C18_Witness ==
    \E s \in Sessions : replies[s] = <<<<0, 56, 1>>, <<0, 49, 1>>>>

\* C18: a three-byte reply is the tag 0 followed by the low and the high
\* byte of coolant_temp, or the tag 1 followed by those of pump_speed, as
\* they are when the command runs; the step that writes it changes no
\* field of SharedState and sends on neither channel
C18_ReadsAnswerCurrentValue ==
    [][\A s \in Sessions :
          (Alive /\ pc' # "returned" /\ Len(replies'[s]) = Len(replies[s]) + 1
                 /\ Len(replies'[s][Len(replies'[s])]) = 3)
          => LET r == replies'[s][Len(replies'[s])]
             IN  /\ \/ r = <<0, coolant_temp % 256, coolant_temp \div 256>>
                     \/ r = <<1, pump_speed % 256, pump_speed \div 256>>
                 /\ UNCHANGED <<stateVars, chan, colors_rx>>]_vars

\* SpecFlood: the daemon with its fan-target channel filled by the watcher
\* while a client sends a speed; the one chunk a connection carries is a
\* whole frame, so no session meets the end of its stream with bytes held
FloodNext ==
    \/ OrchNext \/ EnvSignal
    \/ WatcherNext \/ EnvFileWrite
    \/ ServerNext
    \/ \E s \in Sessions :
        \/ SessionRecv(s) \/ SessionRedecode(s)
        \/ SessionSend(s) \/ SessionExit(s) \/ EnvClose(s)

FloodInit == DaemonInit /\ InitFlood

SpecFlood == FloodInit /\ [][FloodNext]_vars

\* a session has been told of success, its message is on the full channel
\* and no target has been applied
C19_Witness ==
    /\ pc = "loop"
    /\ Len(chan) = FanChannelCapacity
    /\ \E i \in 1..Len(chan) : chan[i].speed # fan_targets[FanToU8(chan[i].fan)]
    /\ fan_targets = [i \in 0..6 |-> 50]
    /\ \E s \in Sessions : replies[s] = <<<<1>>>>

\* C19: a session writes the one-byte reply to SetFanTarget in the step in
\* which its message is put on the channel; a session whose send finds the
\* channel full is suspended without a reply, and writes it when the
\* channel has taken the message it holds
C19_ReplyAfterAccepted ==
    [][\A s \in Sessions :
          (Alive /\ pc' # "returned") =>
              /\ (Len(replies'[s]) = Len(replies[s]) + 1
                      /\ replies'[s][Len(replies'[s])] = <<1>>)
                    => \/ /\ Len(chan') = Len(chan) + 1
                          /\ SubSeq(chan', 1, Len(chan)) = chan
                          /\ sess[s] = "sending" => chan' = Append(chan, smsg[s])
                       \/ colors_rx' # colors_rx
              /\ (sess'[s] = "sending" /\ sess[s] # "sending")
                    => (Len(chan) >= FanChannelCapacity /\ chan' = chan
                          /\ replies'[s] = replies[s])
              /\ (sess[s] = "sending" /\ sess'[s] = "sending")
                    => replies'[s] = replies[s]]_vars

\* C20: when the orchestrator takes a message (fan, s) from the fan-target
\* channel and s differs from the stored target of fan, it stores s and
\* writes one set-speeds command (or returns the error of that command);
\* when s equals the stored target it writes nothing to the device and
\* changes no field of SharedState
C20_FanTargetApplied ==
    [][OrchSetFanSpeed =>
          LET in_speed == Head(chan).speed
              idx == FanToU8(Head(chan).fan)
          IN  IF idx \notin DOMAIN fan_targets \/ in_speed # fan_targets[idx]
              THEN \/ pc' = "returned" /\ result' = "err"
                   \/ /\ pc' = "loop"
                      /\ idx \in DOMAIN fan_targets
                      /\ fan_targets' = [fan_targets EXCEPT ![idx] = in_speed]
                      /\ Len(hid.issued) < probe_cap
                            => hid'.issued = Append(hid.issued, "set_speeds")
                      /\ UNCHANGED <<coolant_temp, pump_speed, colors>>
              ELSE UNCHANGED <<hid, stateVars, pc>>]_vars

\* the server is about to receive a datagram
UdpReady == Alive /\ sst = "run" /\ ~u_readable

\* two datagrams have been handled, one of them a SetFanTarget, and no
\* connection has been made
C23_Witness ==
    /\ UdpReady
    /\ inputs_left = 0 /\ conns_left = MaxSessions
    /\ chan = <<Msg(FanN(0), 100)>>

\* C23: whatever datagrams came before, a datagram is decoded as a decoder
\* that has seen nothing decodes it
C23_DatagramDecodedAlone ==
    UdpReady =>
        \A d \in client_chunks :
            LET r == DecodeEof(ubuf, d)
                fresh == DecodeEof(<<>>, d)
            IN  /\ r.some = fresh.some /\ r.err = fresh.err
                /\ r.some => (r.item = fresh.item /\ r.buf = fresh.buf)

----------------------------------------------------------------------------
\* SpecSpeeds: the daemon with one watcher, whose absent file gives the pump
\* the default target, and one client that sets the target of the first fan

SpeedsInit ==
    /\ DaemonInit
    /\ listen = TRUE /\ unrecognized_firmware = FALSE
    /\ file_values = {}
    /\ client_chunks = {Frame(SetFanTarget(FanN(0), 30))}
    /\ temp_values = {312} /\ speed_values = {2268}
    /\ probe_cap = MaxIssued
    /\ wfile = [w \in Watchers |-> Absent]
    /\ writes_left = 0 /\ inputs_left = 1 /\ conns_left = 1

\* no file is modified, the channel never fills and the one chunk is a
\* whole frame
SpeedsNext ==
    \/ OrchNext \/ EnvSignal
    \/ \E w \in Watchers : WatcherStart(w) \/ WatcherExit(w)
    \/ ServerBind \/ ServerAccept \/ ServerUdpRecv \/ ServerUdpRedecode
    \/ ServerExit \/ ServerJoin
    \/ \E s \in Sessions :
        \/ SessionRecv(s) \/ SessionRedecode(s) \/ SessionExit(s) \/ EnvClose(s)

SpecSpeeds == SpeedsInit /\ [][SpeedsNext]_vars

\* the pump's target and then the first fan's have been written to the device
C21_Witness ==
    /\ pc = "loop"
    /\ hid.issued = InitCommands \o <<"set_speeds", "set_speeds">>
    /\ hid.speeds = [i \in 0..6 |-> IF i = 0 THEN 100 ELSE IF i = 1 THEN 30 ELSE 50]

\* C21: a set-speeds command is built from seven speeds, the new speed for
\* the fan of the message and for the six others the targets stored before
\* the message; they are the stored targets after the update
C21_SetSpeedsCarriesAllTargets ==
    [][(Len(hid'.issued) = Len(hid.issued) + 1
          /\ hid'.issued[Len(hid'.issued)] = "set_speeds")
       => /\ pc = "loop" /\ chan # <<>>
          /\ DOMAIN hid'.speeds = 0..6
          /\ \A i \in 0..6 :
                hid'.speeds[i] = IF i = FanToU8(Head(chan).fan)
                                 THEN Head(chan).speed ELSE fan_targets[i]
          /\ pc' = "loop" => hid'.speeds = fan_targets']_vars

----------------------------------------------------------------------------
\* SpecWatch: the daemon without --listen, a fan-target file written once,
\* with a number or with something else; a watcher with an event to handle
\* is polled by the runtime

WatchInit == DaemonInit /\ InitQuiet

WatchNext ==
    \/ OrchNext \/ EnvSignal \/ EnvFileWrite
    \/ \E w \in Watchers : WatcherStart(w) \/ WatcherModify(w) \/ WatcherExit(w)

SpecWatch ==
    /\ WatchInit /\ [][WatchNext]_vars
    /\ \A w \in Watchers : WF_vars(WatcherModify(w))

\* the one write was not a number, the watcher has put the default back and
\* has sent it
C25_Witness ==
    /\ pc = "loop" /\ writes_left = 0
    /\ \E w \in Watchers :
          /\ wst[w] = "wait" /\ ~wnotify[w] /\ wfile[w] = DefaultFile
          /\ chan # <<>> /\ chan[Len(chan)] = Msg(WatcherFan(w), 100)

\* a watcher that reads content that is no number writes the default,
\* sends nothing and goes on waiting, with a modify event raised
C25_Rewrite ==
    \A w \in Watchers :
        (WatcherModify(w) /\ wfile[w].kind = "garbage" /\ wst'[w] # "failed")
        => /\ wfile'[w] = DefaultFile /\ wnotify'[w] /\ wst'[w] = "wait"
           /\ chan' = chan /\ wmsg' = wmsg

\* a watcher that reads the default sends (fan, 100) and leaves the file alone
C25_DefaultRead ==
    \A w \in Watchers :
        (WatcherModify(w) /\ wfile[w] = DefaultFile /\ wst'[w] # "failed")
        => /\ wfile' = wfile /\ ~wnotify'[w]
           /\ chan' = Append(chan, Msg(WatcherFan(w), 100))

\* C25: content that is no number makes the watcher write "100\n", send
\* nothing and go on; the event of its own write makes it read the file
\* again, send (fan, 100) and write nothing; while the watcher runs that
\* event is eventually handled
C25_MalformedFileReset ==
    /\ [][C25_Rewrite /\ C25_DefaultRead]_vars
    /\ \A w \in Watchers :
          (wst[w] = "wait" /\ wnotify[w] /\ wfile[w] = DefaultFile)
              ~> (~wnotify[w] \/ wst[w] # "wait")

C26_FailureIsLocal ==
    \A w \in Watchers :
        (Alive /\ wst[w] # "failed" /\ wst'[w] = "failed")
        => /\ UNCHANGED <<orchVars, stateVars, chan, colors_rx, exit_running,
                          serverVars, sessVars>>
           /\ \A v \in Watchers \ {w} : wst'[v] = wst[v]

\* the join of a failed watcher can complete, and then the last command
\* can be written
C26_JoinCompletes ==
    /\ (pc = "join_fans" /\ join_i < NumWatchers /\ wst[join_i] = "failed")
          => ENABLED OrchJoinFan
    /\ pc = "hardware" => ENABLED OrchHardware

C37_NoColorsUnlessPublished ==
    (\A d \in client_chunks : ~Decode(<<>>, d).some \/ Decode(<<>>, d).item.type # "SetColors")
        => \A i \in 1..Len(hid.issued) : hid.issued[i] # "set_colors"

\* C38: the messages on the fan-target channel are taken in the order they
\* were accepted, each by write_fan_target, and none is on the channel when
\* the orchestrator leaves its loop on a signal
C38_ChannelDrainedAtExit ==
    [][/\ (pc = "loop" /\ pc' = "loop" /\ chan # <<>> /\ Len(chan') < Len(chan))
            => chan' = Tail(chan)
       /\ (pc = "loop" /\ pc' = "join_fans") => chan = <<>>]_vars

\* SpecStartup: SpecSpeeds with a client that sets the first fan to 50, the
\* target SharedState::default() holds

StartupInit ==
    /\ DaemonInit
    /\ listen = TRUE /\ unrecognized_firmware = FALSE
    /\ file_values = {}
    /\ client_chunks = {Frame(SetFanTarget(FanN(0), 50))}
    /\ temp_values = {312} /\ speed_values = {2268}
    /\ probe_cap = MaxIssued
    /\ wfile = [w \in Watchers |-> Absent]
    /\ writes_left = 0 /\ inputs_left = 1 /\ conns_left = 1

SpecStartup == StartupInit /\ [][SpeedsNext]_vars

\* write_fan_target has returned Ok for the message at the head of the
\* channel, with room in the log of device commands for what it has written
FanMessageProcessed ==
    /\ pc = "loop" /\ chan # <<>> /\ chan' = Tail(chan) /\ pc' = "loop"
    /\ Len(hid.issued) < probe_cap

\* C36: when write_fan_target has processed a message, the seven targets of
\* the last set-speeds command sent are the targets SharedState holds, the
\* speed of the message for its fan among them
C36_DeviceHoldsTargets ==
    [][FanMessageProcessed
        => /\ DOMAIN hid'.speeds = 0..6
           /\ \A i \in 0..6 : hid'.speeds[i] = fan_targets'[i]
           /\ hid'.speeds[FanToU8(Head(chan).fan)] = Head(chan).speed]_vars

\* C32: every fan of a message on the fan-target channel converts to an
\* index of the seven stored targets, and write_fan_target never aborts
C32_FanIndexInBounds ==
    /\ pc \in {"loop", "join_fans", "hardware"}
          => \A i \in 1..Len(chan) : FanToU8(chan[i].fan) \in 0..6
    /\ result # "panic"

----------------------------------------------------------------------------
\* SpecDrop: run_async returns an error from its loop. Its future is dropped,
\* and with it the receiver of the fan-target channel and exit_tx, before
\* Capellix::run drops the runtime; until then the worker threads of the
\* runtime go on polling the tasks.

\* self.temp_tick().await? fails: run_async returns the error
OrchLoopFails ==
    /\ pc = "loop"
    /\ \E o \in HidOutcomes \ {"ok"} : hid' = HidCommand(hid, "get_temp", o)
    /\ pc' = "dropped" /\ result' = "err"
    /\ chan' = <<>>
    /\ UNCHANGED <<codecVars, rtVars, reqVars, acVars, envVars, budgetVars, signal, join_i,
                   firmware, stateVars, colors_rx, exit_running,
                   watcherVars, serverVars, sessVars>>

\* FanTargetThread::run up to the send of on_change, polled after the drop
WatcherStartClosed(w) ==
    /\ pc = "dropped"
    /\ wst[w] = "init"
    /\ \E io_ok \in BOOLEAN :
        LET content == IF wfile[w].kind = "absent" THEN DefaultFile ELSE wfile[w]
        IN  IF ~io_ok
            THEN /\ wst' = [wst EXCEPT ![w] = "failed"]
                 /\ UNCHANGED <<wfile, wnotify, wmsg>>
            ELSE IF content.kind = "num"
            THEN /\ wst' = [wst EXCEPT ![w] = "sending"]
                 /\ wmsg' = [wmsg EXCEPT ![w] =
                                Msg(WatcherFan(w), validate_fan_speed(content.val))]
                 /\ wfile' = [wfile EXCEPT ![w] = content]
                 /\ wnotify' = [wnotify EXCEPT ![w] = FALSE]
            ELSE /\ wfile' = [wfile EXCEPT ![w] = DefaultFile]
                 /\ wnotify' = [wnotify EXCEPT ![w] = TRUE]
                 /\ wst' = [wst EXCEPT ![w] = "wait"]
                 /\ wmsg' = wmsg
    /\ UNCHANGED <<codecVars, rtVars, reqVars, acVars, envVars, budgetVars, signal,
                   orchVars, stateVars, chan, colors_rx, exit_running,
                   serverVars, sessVars>>

\* the result of a task whose send returned SendError: `?` makes it the
\* Err that print_thread_result logs with error!
SendClosed == "failed"

\* set_pump_speed_tx.send((fan, speed)).await? finds the receiver dropped
WatcherSendClosed(w) ==
    /\ pc = "dropped"
    /\ wst[w] = "sending"
    /\ wst' = [wst EXCEPT ![w] = SendClosed]
    /\ wmsg' = [wmsg EXCEPT ![w] = NoMsg]
    /\ UNCHANGED <<codecVars, rtVars, reqVars, acVars, envVars, budgetVars, signal,
                   orchVars, stateVars, chan, colors_rx, exit_running,
                   wfile, wnotify, serverVars, sessVars>>

\* SocketThread::run reads a set-fan-target frame after the drop and
\* reaches the send of SocketCommand::run
SessionRecvClosed(s) ==
    /\ pc = "dropped"
    /\ sess[s] = "run" /\ sconn[s] /\ ~s_readable[s]
    /\ inputs_left > 0
    /\ inputs_left' = inputs_left - 1
    /\ \E d \in client_chunks :
        LET r == Decode(sbuf[s], d)
        IN  /\ r.some /\ r.item.type = "SetFanTarget"
            /\ sbuf' = [sbuf EXCEPT ![s] = r.buf]
            /\ s_readable' = [s_readable EXCEPT ![s] = TRUE]
            /\ sess' = [sess EXCEPT ![s] = "sending"]
            /\ smsg' = [smsg EXCEPT ![s] =
                           Msg(r.item.fan, validate_fan_speed(r.item.speed))]
    /\ UNCHANGED <<codecVars, rtVars, reqVars, acVars, envVars, writes_left, conns_left, signal,
                   orchVars, stateVars, chan, colors_rx, exit_running,
                   watcherVars, serverVars, sconn, replies>>

\* set_pump_speed_tx.send((fan, speed)).await? of SocketCommand::run finds
\* the receiver dropped; no reply is written
SessionSendClosed(s) ==
    /\ pc = "dropped"
    /\ sess[s] = "sending"
    /\ sess' = [sess EXCEPT ![s] = SendClosed]
    /\ smsg' = [smsg EXCEPT ![s] = NoMsg]
    /\ UNCHANGED <<codecVars, rtVars, reqVars, acVars, envVars, budgetVars, signal,
                   orchVars, stateVars, chan, colors_rx, exit_running,
                   watcherVars, serverVars, sconn, sbuf, s_readable, replies>>

\* Capellix::run returns: the runtime is dropped and main exits
RuntimeDrop ==
    /\ pc = "dropped"
    /\ Return(result)
    /\ UNCHANGED <<codecVars, rtVars, reqVars, acVars, envVars, signal, firmware, hid>>

DropNext ==
    \/ SpeedsNext
    \/ OrchLoopFails \/ RuntimeDrop
    \/ \E w \in Watchers : WatcherStartClosed(w) \/ WatcherSendClosed(w)
    \/ \E s \in Sessions : SessionRecvClosed(s) \/ SessionSendClosed(s)

SpecDrop == SpeedsInit /\ [][DropNext]_vars

\* the send of watcher w, or of session s, returns for the dropped receiver
WatcherSendFails(w) ==
    pc = "dropped" /\ pc' = "dropped" /\ wst[w] = "sending" /\ wst'[w] # "sending"
SessionSendFails(s) ==
    pc = "dropped" /\ pc' = "dropped" /\ sess[s] = "sending" /\ sess'[s] # "sending"

\* C27: a watcher or a session whose send on the fan-target channel fails
\* because the receiver has been dropped stops with a result that is not an
\* error, so that nothing is logged as an error
C27_ClosedSendIsNotAnError ==
    [][/\ \A w \in Watchers : WatcherSendFails(w) => wst'[w] = "done"
       /\ \A s \in Sessions : SessionSendFails(s) => sess'[s] = "done"]_vars

----------------------------------------------------------------------------
\* SpecClose: SpecSpeeds with its session tasks scheduled: a task that can
\* go on is polled by the runtime

SpecClose ==
    /\ SpeedsInit /\ [][SpeedsNext]_vars
    /\ \A s \in Sessions :
          WF_vars(SessionRecv(s) \/ SessionRedecode(s) \/ SessionExit(s))

\* C24: a session task whose connection the peer has closed comes to its
\* end, and so does a session task once the exit channel holds false
C24_SessionEndsOnClose ==
    \A s \in Sessions :
        /\ (sess[s] = "run" /\ ~sconn[s]) ~> (sess[s] # "run")
        /\ (sess[s] = "run" /\ ~exit_running) ~> (sess[s] # "run")

----------------------------------------------------------------------------
\* SpecColors: the daemon and one client that publishes colour buffers, each
\* in a chunk or datagram of its own

\* the colour buffers the client publishes
PublishedColors == {Uniform(<<255, 128, 1>>), Uniform(<<0, 0, 255>>)}

ColorsInit ==
    /\ DaemonInit
    /\ listen = TRUE /\ unrecognized_firmware = FALSE
    /\ file_values = {}
    /\ client_chunks = {Frame(SetColors(c)) : c \in PublishedColors}
    /\ temp_values = {312} /\ speed_values = {2268}
    /\ probe_cap = MaxIssued
    /\ wfile = [w \in Watchers |-> Absent]
    /\ writes_left = 0 /\ inputs_left = MaxInputs /\ conns_left = 1

\* no file is modified and the fan-target channel never fills
ColorsNext ==
    \/ OrchNext \/ EnvSignal
    \/ \E w \in Watchers : WatcherStart(w) \/ WatcherExit(w)
    \/ ServerBind \/ ServerAccept \/ ServerUdpRecv \/ ServerUdpRedecode
    \/ ServerExit \/ ServerJoin
    \/ \E s \in Sessions :
        \/ SessionRecv(s) \/ SessionRedecode(s) \/ SessionExit(s) \/ EnvClose(s)

\* stream_select! polls its streams in turn, and every handler of the loop
\* returns: a colour event that stays ready is handled
SpecColors == ColorsInit /\ [][ColorsNext]_vars /\ WF_vars(OrchSetColors)

\* the initial buffer and two more have been published, one set-colors
\* command has been written, and it carried a buffer of the client
C22_Witness ==
    /\ pc = "loop"
    /\ \E s \in Sessions : replies[s] = <<<<1>>, <<1>>>>
    /\ hid.issued = InitCommands \o <<"set_colors">>
    /\ colors \in PublishedColors
    /\ ~colors_rx.changed

\* a published buffer replaces the pending one, the initial buffer included
C22_Publish ==
    \A s \in Sessions :
        (Alive /\ pc' # "returned" /\ Len(replies'[s]) = Len(replies[s]) + 1)
        => (colors_rx'.changed /\ colors_rx'.val \in PublishedColors)

\* the orchestrator sends the pending buffer, and nothing is pending then
C22_Handle ==
    ((colors' # colors \/ (colors_rx.changed /\ ~colors_rx'.changed)) /\ pc' = "loop")
        => (colors' = colors_rx.val /\ colors_rx' = [val |-> colors', changed |-> FALSE])

\* C22: the colour channel holds one pending buffer, the last one published;
\* the orchestrator sends that buffer to the device, and while it is in its
\* loop a pending buffer is eventually sent
C22_LastColorsWin ==
    /\ [][C22_Publish /\ C22_Handle]_vars
    /\ (pc = "loop" /\ colors_rx.changed) ~> (pc # "loop" \/ ~colors_rx.changed)

----------------------------------------------------------------------------
\* SpecRequest: Hid::request over a sequence of commands

\* the longest request
MaxRequest == 3

\* the commands a request is made of
RequestCommands == {"enable_direct_lighting", "set_fan_types", "set_colors"}

Requests == UNION {[1..n -> RequestCommands] : n \in 0..MaxRequest}

\* Hid::command: the write, the read and the echo check, each followed by a return
CommandOutcome(write_ok, read_ok, echoed) ==
    IF ~write_ok THEN "write_err"
    ELSE IF ~read_ok \/ ~echoed THEN "resp_err"
    ELSE "ok"

\* a plausible slip: the loop goes on to the next command after one has failed
RequestContinues_AfterError(st) == st \in {"running", "err"}

\* Hid::request: the loop runs while no command has returned an error
RequestContinues(st) == st = "running"

RequestInit ==
    /\ CodecIdle /\ RtIdle /\ AcIdle /\ TasksIdle
    /\ probe_cap = 2 * MaxRequest
    /\ hid = [software |-> FALSE, hardware |-> FALSE, speeds |-> <<>>, issued |-> <<>>]
    /\ req_cmds \in Requests
    /\ req_i = 0
    /\ req_st = "running"
    /\ req_err = 0

\* Hid::request: one turn of the loop, self.command(command)?
RequestCommand ==
    /\ RequestContinues(req_st)
    /\ req_i < Len(req_cmds)
    /\ \E write_ok, read_ok, echoed \in BOOLEAN :
        LET o == CommandOutcome(write_ok, read_ok, echoed)
        IN  /\ hid' = HidCommand(hid, req_cmds[req_i + 1], o)
            /\ req_i' = req_i + 1
            /\ req_st' = IF o = "ok" /\ req_st = "running" THEN "running" ELSE "err"
            /\ req_err' = IF o # "ok" /\ req_err = 0 THEN req_i + 1 ELSE req_err
    /\ UNCHANGED <<req_cmds, codecVars, rtVars, acVars, envVars, budgetVars, signal, pc, result,
                   join_i, firmware, stateVars, taskVars>>

\* Hid::request: the iterator is exhausted, Ok(())
RequestDone ==
    /\ req_st = "running"
    /\ req_i = Len(req_cmds)
    /\ req_st' = "ok"
    /\ UNCHANGED <<req_cmds, req_i, req_err, codecVars, rtVars, acVars, daemonVars>>

RequestNext == RequestCommand \/ RequestDone

SpecRequest == RequestInit /\ [][RequestNext]_vars

\* the second command of three got a response that does not echo it
C16_Witness ==
    /\ Len(req_cmds) = 3 /\ req_st = "err" /\ req_err = 2
    /\ hid.issued = SubSeq(req_cmds, 1, 2)

\* C16: when a command of a request fails, request returns the error: the
\* commands written to the device are those before it and, unless its write
\* failed, the failed command once; no later command is attempted
C16_RequestFailsFast ==
    /\ req_st = "ok" => (req_err = 0 /\ hid.issued = req_cmds)
    /\ req_err > 0 =>
          /\ req_st = "err"
          /\ req_i = req_err
          /\ Len(hid.issued) \in {req_err - 1, req_err}
          /\ hid.issued = SubSeq(req_cmds, 1, Len(hid.issued))

----------------------------------------------------------------------------
\* SpecRoundTrip: Vec<u8>::from followed by the parser

U16Samples == (0..MaxU16Run) \cup ((65535 - MaxU16Run)..65535)

\* the fans the program constructs: Fan::try_from(0..=7) and Fan::from_str
Fans == {Pump} \cup {FanN(i) : i \in 0..6}

RtCommands ==
    {GetCoolantTemp, GetPumpSpeed}
        \cup {SetFanTarget(f, v) : f \in Fans, v \in U16Samples}
        \cup {SetColors(c) : c \in ColorSamples}

RtResponses ==
    {RespGetCoolantTemp(v) : v \in U16Samples}
        \cup {RespGetPumpSpeed(v) : v \in U16Samples}
        \cup {RespSetPumpSpeed(b) : b \in BOOLEAN}
        \cup {RespSetColors(b) : b \in BOOLEAN}

RtInit ==
    /\ CodecIdle /\ ReqIdle /\ AcIdle /\ DaemonIdle
    /\ rt_in \in {[kind |-> "command", val |-> c] : c \in RtCommands}
                 \cup {[kind |-> "response", val |-> r] : r \in RtResponses}
    /\ rt_bytes = <<>>
    /\ rt_out = "none"
    /\ rt_pc = "value"

\* Vec::<u8>::from(SocketCommand)
RtEncodeCommand ==
    /\ rt_pc = "value" /\ rt_in.kind = "command"
    /\ rt_bytes' = CommandToBytes(rt_in.val)
    /\ rt_pc' = "bytes"
    /\ UNCHANGED <<rt_in, rt_out, codecVars, reqVars, acVars, daemonVars>>

\* socket_command_bytes(&bytes)
RtDecodeCommand ==
    /\ rt_pc = "bytes" /\ rt_in.kind = "command"
    /\ rt_out' = [ok |-> socket_command_bytes(rt_bytes).ok,
                  rest |-> socket_command_bytes(rt_bytes).rest,
                  val |-> socket_command_bytes(rt_bytes).cmd]
    /\ rt_pc' = "done"
    /\ UNCHANGED <<rt_in, rt_bytes, codecVars, reqVars, acVars, daemonVars>>

\* Vec::<u8>::from(SocketResponse)
RtEncodeResponse ==
    /\ rt_pc = "value" /\ rt_in.kind = "response"
    /\ rt_bytes' = ResponseToBytes(rt_in.val)
    /\ rt_pc' = "bytes"
    /\ UNCHANGED <<rt_in, rt_out, codecVars, reqVars, acVars, daemonVars>>

\* SocketResponse::try_from(&bytes[..])
RtDecodeResponse ==
    /\ rt_pc = "bytes" /\ rt_in.kind = "response"
    /\ rt_out' = [ok |-> SocketResponseTryFrom(rt_bytes).ok,
                  rest |-> <<>>,
                  val |-> SocketResponseTryFrom(rt_bytes).resp]
    /\ rt_pc' = "done"
    /\ UNCHANGED <<rt_in, rt_bytes, codecVars, reqVars, acVars, daemonVars>>

RtNext == RtEncodeCommand \/ RtDecodeCommand \/ RtEncodeResponse \/ RtDecodeResponse

SpecRoundTrip == RtInit /\ [][RtNext]_vars

\* SpecAtomic, SpecAtomicRace: AtomicChanged<T> (atomic_changed.rs). T is seen
\* through a shared reference, so the f of change modifies it through interior
\* mutability; the model keeps the version of the value, which the f of
\* change increments when it modifies and the f of if_changed reads.

\* the calls of each thread
MaxAcCalls == 3

\* AtomicChanged::from(value) sets the flag, AtomicChanged::default() does not
AtomicInit ==
    /\ CodecIdle /\ RtIdle /\ ReqIdle /\ DaemonIdle
    /\ ac \in {[value |-> 0, changed |-> c] : c \in BOOLEAN}
    /\ ac_c = [ConsumerOff EXCEPT !.pc = "idle"]
    /\ ac_p = [ProducerOff EXCEPT !.pc = "idle"]

\* if_changed: self.changed.load(ordering); the else branch returns None
IfChangedLoad ==
    /\ ac_c.pc = "idle" /\ ac_c.rets < MaxAcCalls
    /\ ac_c' = IF ac.changed
               THEN [ac_c EXCEPT !.pc = "f", !.entry = TRUE, !.runs = 0]
               ELSE [ac_c EXCEPT !.entry = FALSE, !.runs = 0, !.some = FALSE,
                                 !.rets = @ + 1]
    /\ UNCHANGED <<ac, ac_p, codecVars, rtVars, reqVars, daemonVars>>

\* if_changed: let out = f(&self.value)
IfChangedRun ==
    /\ ac_c.pc = "f"
    /\ ac_c' = [ac_c EXCEPT !.pc = "store", !.out = ac.value, !.runs = @ + 1]
    /\ UNCHANGED <<ac, ac_p, codecVars, rtVars, reqVars, daemonVars>>

\* a plausible slip: the flag left set
IfChangedStore_KeepsFlag ==
    /\ ac_c.pc = "store"
    /\ ac_c' = [ac_c EXCEPT !.pc = "idle", !.some = TRUE, !.rets = @ + 1]
    /\ UNCHANGED <<ac, ac_p, codecVars, rtVars, reqVars, daemonVars>>

\* if_changed: self.changed.store(false, ordering); Some(out)
IfChangedStore ==
    /\ ac_c.pc = "store"
    /\ ac' = [ac EXCEPT !.changed = FALSE]
    /\ ac_c' = [ac_c EXCEPT !.pc = "idle", !.some = TRUE, !.rets = @ + 1]
    /\ UNCHANGED <<ac_p, codecVars, rtVars, reqVars, daemonVars>>

\* change: let changed = f(&self.value), an f that modifies the value and
\* returns true or leaves it and returns false
ChangeRun ==
    /\ ac_p.pc = "idle" /\ ac_p.rets < MaxAcCalls
    /\ \E modifies \in BOOLEAN :
        /\ ac' = [ac EXCEPT !.value = IF modifies THEN @ + 1 ELSE @]
        /\ ac_p' = [ac_p EXCEPT !.pc = "flag", !.changed = modifies]
    /\ UNCHANGED <<ac_c, codecVars, rtVars, reqVars, daemonVars>>

\* change: if changed { self.changed.store(true, ordering) }
ChangeStore ==
    /\ ac_p.pc = "flag"
    /\ ac' = [ac EXCEPT !.changed = IF ac_p.changed THEN TRUE ELSE @]
    /\ ac_p' = [ac_p EXCEPT !.pc = "idle", !.rets = @ + 1]
    /\ UNCHANGED <<ac_c, codecVars, rtVars, reqVars, daemonVars>>

\* change_mut, which takes &mut self: no other call is in progress
ChangeMut ==
    /\ ac_p.pc = "idle" /\ ac_c.pc = "idle" /\ ac_p.rets < MaxAcCalls
    /\ ac' = [value |-> ac.value + 1, changed |-> TRUE]
    /\ ac_p' = [ac_p EXCEPT !.changed = TRUE, !.rets = @ + 1]
    /\ UNCHANGED <<ac_c, codecVars, rtVars, reqVars, daemonVars>>

\* a call that begins when no other call is in progress
IfChangedAlone == ac_p.pc = "idle" /\ IfChangedLoad
ChangeAlone == ac_c.pc = "idle" /\ ChangeRun

\* one call at a time
AtomicNext ==
    \/ IfChangedAlone \/ IfChangedRun \/ IfChangedStore
    \/ ChangeAlone \/ ChangeStore
    \/ ChangeMut

SpecAtomic == AtomicInit /\ [][AtomicNext]_vars

\* the two threads of change and if_changed, their loads, stores and
\* functions interleaved
RaceNext ==
    \/ IfChangedLoad \/ IfChangedRun \/ IfChangedStore
    \/ ChangeRun \/ ChangeStore

SpecAtomicRace == AtomicInit /\ [][RaceNext]_vars

\* a call of if_changed returns
IfChangedReturns == ac_c'.rets = ac_c.rets + 1

\* a call found the flag set and f saw the first change; the next call has
\* returned None
C29_Witness ==
    /\ ac_c.pc = "idle" /\ ac_c.rets = 2
    /\ ~ac_c.some /\ ~ac_c.entry /\ ac_c.out = 1
    /\ ~ac.changed

\* C29: a call of if_changed that finds the flag set runs f once, returns
\* Some of what f returned and leaves the flag clear; a call that finds it
\* clear does not run f, returns None and leaves the flag clear
C29_IfChanged ==
    [][/\ (ac_c.pc = "idle" /\ ac_c' # ac_c) => ac_c'.entry = ac.changed
       /\ IfChangedReturns =>
            IF ac_c'.entry
            THEN /\ ac_c'.runs = 1
                 /\ ac_c'.some /\ ac_c'.out = ac'.value
                 /\ ~ac'.changed
            ELSE /\ ac_c'.runs = 0
                 /\ ~ac_c'.some /\ ac_c'.out = ac_c.out
                 /\ ~ac'.changed /\ ac' = ac]_vars

\* C30: when the calls of change and if_changed have returned and the value
\* has been modified since the function of if_changed last read it, the
\* flag is set
C30_NoLostChange ==
    (ac_c.pc = "idle" /\ ac_p.pc = "idle" /\ ac.value # ac_c.out) => ac.changed

----------------------------------------------------------------------------
\* SpecText: SocketCommand::from_str (socket_command.rs). A string is a
\* sequence of characters; the four keywords, which only nom's tag looks at,
\* are one symbol each.

Digits == <<"0", "1", "2", "3", "4", "5", "6", "7", "8", "9">>
IsDigit(c) == \E i \in 1..10 : Digits[i] = c
DigitValue(c) == (CHOOSE i \in 1..10 : Digits[i] = c) - 1
IsAlpha(c) == c \in {"p", "u", "m", "f", "a", "n", "x"}
IsSpace(c) == c = " "

\* the length of the longest prefix of s made of digits, of letters and
\* digits, of spaces
RECURSIVE DigitRun(_)
DigitRun(s) == IF s # <<>> /\ IsDigit(s[1]) THEN 1 + DigitRun(Tail(s)) ELSE 0
RECURSIVE AlnumRun(_)
AlnumRun(s) ==
    IF s # <<>> /\ (IsDigit(s[1]) \/ IsAlpha(s[1])) THEN 1 + AlnumRun(Tail(s)) ELSE 0
RECURSIVE SpaceRun(_)
SpaceRun(s) == IF s # <<>> /\ IsSpace(s[1]) THEN 1 + SpaceRun(Tail(s)) ELSE 0

\* the number a run of digits denotes
RECURSIVE Decimal(_)
Decimal(ds) ==
    IF ds = <<>> THEN 0 ELSE 10 * Decimal(SubSeq(ds, 1, Len(ds) - 1)) + DigitValue(ds[Len(ds)])

\* impl FromStr for Fan
FanFromStr(w) ==
    CASE w = <<"p", "u", "m", "p">> -> [ok |-> TRUE, fan |-> Pump]
      [] w = <<"f", "a", "n", "1">> -> [ok |-> TRUE, fan |-> FanN(0)]
      [] w = <<"f", "a", "n", "2">> -> [ok |-> TRUE, fan |-> FanN(1)]
      [] w = <<"f", "a", "n", "3">> -> [ok |-> TRUE, fan |-> FanN(2)]
      [] w = <<"f", "a", "n", "4">> -> [ok |-> TRUE, fan |-> FanN(3)]
      [] w = <<"f", "a", "n", "5">> -> [ok |-> TRUE, fan |-> FanN(4)]
      [] w = <<"f", "a", "n", "6">> -> [ok |-> TRUE, fan |-> FanN(5)]
      [] OTHER -> [ok |-> FALSE, fan |-> Pump]

\* nom::IResult<&str, SocketCommand>, or the panic of the parser
TextErr == [ok |-> FALSE, panic |-> FALSE, rest |-> <<>>, cmd |-> GetCoolantTemp]
TextPanic == [ok |-> FALSE, panic |-> TRUE, rest |-> <<>>, cmd |-> GetCoolantTemp]
TextOk(rest, cmd) == [ok |-> TRUE, panic |-> FALSE, rest |-> rest, cmd |-> cmd]

\* map_res(preceded(space1, recognize(many1(one_of("0123456789")))), parse)
\* with the integer type of max: [ok, val, rest]
NumberStr(input, max) ==
    LET sp == SpaceRun(input)
        after == Drop(input, sp)
        n == DigitRun(after)
        val == Decimal(SubSeq(after, 1, n))
    IN  IF sp >= 1 /\ n >= 1 /\ val <= max
        THEN [ok |-> TRUE, val |-> val, rest |-> Drop(after, n)]
        ELSE [ok |-> FALSE, val |-> 0, rest |-> input]

socket_command_get_coolant_temp_str(input) ==
    IF input # <<>> /\ input[1] = "get-coolant-temp"
    THEN TextOk(Tail(input), GetCoolantTemp)
    ELSE TextErr

socket_command_get_pump_speed_str(input) ==
    IF input # <<>> /\ input[1] = "get-pump-speed"
    THEN TextOk(Tail(input), GetPumpSpeed)
    ELSE TextErr

socket_command_set_pump_speed_str(input) ==
    IF input # <<>> /\ input[1] = "set-fan-target"
    THEN LET i1 == Tail(input)
             sp == SpaceRun(i1)
             w == AlnumRun(Drop(i1, sp))
             fan == FanFromStr(SubSeq(i1, sp + 1, sp + w))
             speed == NumberStr(Drop(i1, sp + w), 65535)
         IN  IF sp >= 1 /\ w >= 1 /\ fan.ok /\ speed.ok
             THEN TextOk(speed.rest, SetFanTarget(fan.fan, speed.val))
             ELSE TextErr
    ELSE TextErr

\* count(number, 3): [ok, rgb, rest]
TripleStr(input) ==
    LET r == NumberStr(input, 255)
        g == NumberStr(r.rest, 255)
        b == NumberStr(g.rest, 255)
    IN  IF r.ok /\ g.ok /\ b.ok
        THEN [ok |-> TRUE, rgb |-> <<r.val, g.val, b.val>>, rest |-> b.rest]
        ELSE [ok |-> FALSE, rgb |-> <<0, 0, 0>>, rest |-> input]

\* count(number, 3) applied up to n times, until it fails: the triples
\* parsed, what follows the last of them, and whether all n were parsed
\* (computed by halves, which keeps the evaluation shallow)
RECURSIVE TriplesUpTo(_, _)
TriplesUpTo(input, n) ==
    IF n = 0 THEN [buf |-> <<>>, rest |-> input, all |-> TRUE]
    ELSE IF n = 1
    THEN LET t == TripleStr(input)
         IN  IF t.ok THEN [buf |-> <<t.rgb>>, rest |-> t.rest, all |-> TRUE]
             ELSE [buf |-> <<>>, rest |-> input, all |-> FALSE]
    ELSE LET a == TriplesUpTo(input, n \div 2)
             b == TriplesUpTo(a.rest, n - (n \div 2))
         IN  IF a.all
             THEN [buf |-> a.buf \o b.buf, rest |-> b.rest, all |-> b.all]
             ELSE a

\* many0(count(number, 3)): a triple takes six characters at least
TriplesStr(input) == TriplesUpTo(input, Len(input) \div 6 + 1)

\* colors.copy_from_slice(&buf) panics unless buf has LED_COUNT_TOTAL items
socket_command_set_colors_str(input) ==
    IF input # <<>> /\ input[1] = "set-colors"
    THEN LET t == TriplesStr(Tail(input))
         IN  IF Len(t.buf) = LED_COUNT_TOTAL
             THEN TextOk(t.rest, SetColors(t.buf))
             ELSE TextPanic
    ELSE TextErr

\* alt((set_colors, set_pump_speed, get_coolant_temp, get_pump_speed))
socket_command_str(input) ==
    LET c == socket_command_set_colors_str(input)
    IN  IF c.ok \/ c.panic THEN c
        ELSE IF socket_command_set_pump_speed_str(input).ok
        THEN socket_command_set_pump_speed_str(input)
        ELSE IF socket_command_get_coolant_temp_str(input).ok
        THEN socket_command_get_coolant_temp_str(input)
        ELSE socket_command_get_pump_speed_str(input)

\* impl FromStr for SocketCommand: the rest of the input is not looked at
SocketCommandFromStr(input) ==
    LET r == socket_command_str(input)
    IN  [ok |-> r.ok, panic |-> r.panic, cmd |-> r.cmd]

\* n triples " 1 2 3" in text
TriplesText(n) ==
    [i \in 1..(6 * n) |-> <<" ", "1", " ", "2", " ", "3">>[((i - 1) % 6) + 1]]

TextTails == {<<>>, <<"x">>, <<" ">>, <<" ", "1">>}
TextFans ==
    {<<"p", "u", "m", "p">>, <<"f", "a", "n", "1">>, <<"f", "a", "n", "6">>,
     <<"f", "a", "n", "7">>, <<"f", "a", "n">>, <<"x">>, <<>>}
TextSpeeds ==
    {<<"0">>, <<"5", "0">>, <<"1", "0", "0">>, <<"1", "0", "1">>, <<"0", "0", "7">>,
     <<"6", "5", "5", "3", "5">>, <<"6", "5", "5", "3", "6">>, <<>>}
TextSeps == {<<>>, <<" ">>, <<" ", " ">>}
TextCounts == {0, 1, LED_COUNT_TOTAL - 1, LED_COUNT_TOTAL, LED_COUNT_TOTAL + 1}

TextInputs ==
    {<<k>> \o t : k \in {"get-coolant-temp", "get-pump-speed"}, t \in TextTails}
    \cup {<<"set-fan-target">> \o s1 \o f \o s2 \o v \o t :
            s1 \in TextSeps, f \in TextFans, s2 \in TextSeps, v \in TextSpeeds,
            t \in {<<>>, <<"x">>}}
    \cup {<<"set-colors">> \o TriplesText(n) \o t :
            n \in TextCounts, t \in TextTails \cup {<<" ", "2", "5", "6", " ", "0", " ", "0">>}}
    \cup {<<>>, <<"x">>, <<" ", "get-pump-speed">>}

TextInit ==
    /\ CodecIdle /\ ReqIdle /\ AcIdle /\ DaemonIdle
    /\ rt_in \in {[kind |-> "text", val |-> t] : t \in TextInputs}
    /\ rt_bytes = <<>>
    /\ rt_out = "none"
    /\ rt_pc = "value"

\* s.parse::<SocketCommand>()
TextParse ==
    /\ rt_pc = "value" /\ rt_in.kind = "text"
    /\ rt_out' = SocketCommandFromStr(rt_in.val)
    /\ rt_pc' = "done"
    /\ UNCHANGED <<rt_in, rt_bytes, codecVars, reqVars, acVars, daemonVars>>

TextNext == TextParse

SpecText == TextInit /\ [][TextNext]_vars

\* the textual grammar: the whole string is one of the four commands, the
\* fan one of the seven tokens, the speed in 0..100, the triples as many as
\* the colour buffer has
InGrammar(input) ==
    LET r == socket_command_str(input)
    IN  /\ r.ok /\ r.rest = <<>>
        /\ r.cmd.type = "SetFanTarget" => r.cmd.speed <= 100

\* C31: from_str returns a command exactly for the strings of the grammar,
\* and an error, not a panic, for every other string
C31_TextParserExact ==
    (rt_pc = "done" /\ rt_in.kind = "text")
        => /\ ~rt_out.panic
           /\ rt_out.ok <=> InGrammar(rt_in.val)

----------------------------------------------------------------------------
\* SpecReply: the reply the server writes for a command, read and decoded by
\* capellixctl

ReplyCommands ==
    {GetCoolantTemp, GetPumpSpeed, SetFanTarget(Pump, 50), SetFanTarget(FanN(0), 30),
     SetColors(Uniform(<<0, 0, 0>>))}

ReplyValues == {0, 256, 312, 65535}

ReplyInit ==
    /\ CodecIdle /\ ReqIdle /\ AcIdle /\ DaemonIdle
    /\ rt_in \in {[kind |-> "request", val |-> c] : c \in ReplyCommands}
    /\ rt_bytes = <<>>
    /\ rt_out = "none"
    /\ rt_pc = "value"

\* temp_tick and speed_tick have stored the values of SharedState
ReplyStore ==
    /\ rt_pc = "value" /\ rt_in.kind = "request"
    /\ coolant_temp' \in ReplyValues
    /\ pump_speed' \in ReplyValues
    /\ rt_pc' = "stored"
    /\ UNCHANGED <<rt_in, rt_bytes, rt_out, codecVars, reqVars, acVars, envVars,
                   budgetVars, signal, orchVars, fan_targets, colors, taskVars>>

\* SocketCommand::run: sink.write(..)
ReplyServe ==
    /\ rt_pc = "stored" /\ rt_in.kind = "request"
    /\ rt_bytes' = Reply(rt_in.val)
    /\ rt_pc' = "bytes"
    /\ UNCHANGED <<rt_in, rt_out, codecVars, reqVars, acVars, daemonVars>>

\* let mut buf = [0; 16]; socket.read(&mut buf)
ReadBuffer(bytes) == [i \in 1..16 |-> IF i <= Len(bytes) THEN bytes[i] ELSE 0]

\* CapellixCtl::run_async: SocketResponse::try_from(&buf[..])
ReplyDecode ==
    /\ rt_pc = "bytes" /\ rt_in.kind = "request"
    /\ rt_out' = SocketResponseTryFrom(ReadBuffer(rt_bytes))
    /\ rt_pc' = "done"
    /\ UNCHANGED <<rt_in, rt_bytes, codecVars, reqVars, acVars, daemonVars>>

ReplyNext == ReplyStore \/ ReplyServe \/ ReplyDecode

SpecReply == ReplyInit /\ [][ReplyNext]_vars

\* the response of the kind of command c
ResponseFor(c) ==
    CASE c.type = "GetCoolantTemp" -> RespGetCoolantTemp(coolant_temp)
      [] c.type = "GetPumpSpeed" -> RespGetPumpSpeed(pump_speed)
      [] c.type = "SetFanTarget" -> RespSetPumpSpeed(TRUE)
      [] c.type = "SetColors" -> RespSetColors(TRUE)

\* C35: the reply to a command decodes on the client to the response of the
\* same kind, with the value read or with success
C35_ReplyOfSameKind ==
    (rt_pc = "done" /\ rt_in.kind = "request")
        => (rt_out.ok /\ rt_out.resp = ResponseFor(rt_in.val))

----------------------------------------------------------------------------
\* SpecTemp: the number temp_tick writes to the coolant-temperature file

\* a * b on u16: with overflow checks (the dev profile) an overflow panics,
\* without them (the release profile) the product wraps
MulU16(a, b, overflow_checks) ==
    IF a * b < 65536 THEN [panic |-> FALSE, val |-> a * b]
    ELSE IF overflow_checks THEN [panic |-> TRUE, val |-> 0]
    ELSE [panic |-> FALSE, val |-> (a * b) % 65536]

\* the temperatures the device may report, in tenths of a degree
TempSamples == U16Samples \cup {655, 656, 1000}

TempInit ==
    /\ CodecIdle /\ ReqIdle /\ AcIdle /\ DaemonIdle
    /\ rt_in \in {[kind |-> "temp", val |-> t] : t \in TempSamples}
    /\ rt_bytes = <<>>
    /\ rt_out = "none"
    /\ rt_pc = "value"

\* write(path, format!("{}\n", temp * 100)), in a build of either profile
TempWrite ==
    /\ rt_pc = "value" /\ rt_in.kind = "temp"
    /\ \E overflow_checks \in BOOLEAN : rt_out' = MulU16(rt_in.val, 100, overflow_checks)
    /\ rt_pc' = "done"
    /\ UNCHANGED <<rt_in, rt_bytes, codecVars, reqVars, acVars, daemonVars>>

TempNext == TempWrite

SpecTemp == TempInit /\ [][TempNext]_vars

\* C39: the number written to the coolant-temperature file is 100 times the
\* temperature stored, for every 16-bit temperature, and the multiplication
\* does not abort
C39_TempFileExact ==
    (rt_pc = "done" /\ rt_in.kind = "temp")
        => (~rt_out.panic /\ rt_out.val = 100 * rt_in.val)

----------------------------------------------------------------------------
\* SpecFan: a u8 converted to a Fan and, when that succeeds, back

U8 == 0..255

FanInit ==
    /\ CodecIdle /\ ReqIdle /\ AcIdle /\ DaemonIdle
    /\ rt_in \in {[kind |-> "u8", val |-> n] : n \in U8}
    /\ rt_bytes = <<>>
    /\ rt_out = "none"
    /\ rt_pc = "value"

\* Fan::try_from(n)
FanTryFrom ==
    /\ rt_pc = "value" /\ rt_in.kind = "u8"
    /\ rt_out' = FanTryFromU8(rt_in.val)
    /\ rt_pc' = "fan"
    /\ UNCHANGED <<rt_in, rt_bytes, codecVars, reqVars, acVars, daemonVars>>

\* u8::from(fan), of the fan of an Ok
FanInto ==
    /\ rt_pc = "fan" /\ rt_in.kind = "u8"
    /\ rt_out.ok
    /\ rt_bytes' = <<FanToU8(rt_out.fan)>>
    /\ rt_pc' = "back"
    /\ UNCHANGED <<rt_in, rt_out, codecVars, reqVars, acVars, daemonVars>>

FanNext == FanTryFrom \/ FanInto

SpecFan == FanInit /\ [][FanNext]_vars

\* 7, the last id accepted, has become the sixth fan and 7 again
C28_Witness ==
    /\ rt_pc = "back"
    /\ rt_in = [kind |-> "u8", val |-> 7]
    /\ rt_out = [ok |-> TRUE, fan |-> FanN(6)]
    /\ rt_bytes = <<7>>

\* C28: Fan::try_from(n) succeeds exactly for n in 0..=7, u8::from of its
\* result is n again, and two different n in 0..=7 give two different fans
C28_FanBijection ==
    /\ (rt_pc \in {"fan", "back"} /\ rt_in.kind = "u8")
          => (rt_out.ok <=> rt_in.val \in 0..7)
    /\ (rt_pc = "back" /\ rt_in.kind = "u8") => rt_bytes = <<rt_in.val>>
    /\ \A m, n \in 0..7 :
          m # n => /\ FanTryFromU8(m).fan # FanTryFromU8(n).fan
                   /\ FanToU8(FanTryFromU8(m).fan) # FanToU8(FanTryFromU8(n).fan)

\* C6: binary encoding followed by binary decoding returns the value that was
\* encoded, for every command (with no input left over) and every response.
C6_RoundTrip ==
    rt_pc = "done" => (rt_out.ok /\ rt_out.val = rt_in.val /\ rt_out.rest = <<>>)

\* a full-size colour buffer, one whose bytes hold the marker, has made the trip
C6_Witness ==
    /\ rt_pc = "done"
    /\ rt_in.kind = "command"
    /\ rt_in.val = SetColors(MarkerColors)
    /\ rt_out.val.colors[2] = <<88, 0, 0>>

====
